---- MODULE Spec2Model ----
(***************************************************************************)
(* Plan execution engine of the ServiceNow agent (src/agent/executor.py)   *)
(* with the remote record client it drives (src/v1/sn/client.py).          *)
(*                                                                         *)
(* Data encoding.                                                          *)
(*  - A JSON/Python scalar is a record [t, v]: t is "none", "str" or "num" *)
(*    and v its text (None has text "", str(None) is "None").              *)
(*  - A step input string is a template [t, v]: t is "none" or "str" and v *)
(*    the string cut at its reference tokens, a sequence of atoms: literal *)
(*    text, $stepN.sys_id, $stepN.result[j].sys_id, <TOKEN>.  The regular  *)
(*    expressions of the executor match exactly the token atoms.           *)
(*  - A mapping (fields, params, the Reference Context) is a function from *)
(*    its keys (strings) to values.                                        *)
(*  - A response body is [kind, sys_id, result, error]: kind "dict" for a  *)
(*    JSON object, "other" for any other non-null JSON value, "null" for   *)
(*    None; result is [kind, rows] with kind "none", "dict" (one row) or   *)
(*    "list"; a row that is a JSON object is a mapping of its columns,     *)
(*    always with the key sys_id (None when the object has none); a row    *)
(*    that is not an object is [scalar].                                   *)
(*  - A raw step that is not a mapping of strings is [shape]: "none" for   *)
(*    None, "int" for a number, "str" for a string, "op_int" for a mapping *)
(*    whose operation is a number, "table_int" for one whose table is.     *)
(***************************************************************************)
EXTENDS Integers, Sequences, FiniteSets, TLC

VARIABLES
    plan,           \* the plan argument: the caller's list of raw steps
    stop_on_error,  \* argument stop_on_error
    cache_get,      \* TRUE iff a cache_get callback was passed
    cache_set,      \* TRUE iff a cache_set callback was passed
    on_step,        \* TRUE iff an observer callback was passed
    pc,             \* "init", "loop", "await" (suspended in a remote call), "done",
                    \* "raised" (an exception left execute_steps)
    i,              \* loop index of execute_steps (1-based)
    ctx,            \* the Reference Context
    steps_out,      \* the Step Results appended so far
    report,         \* the returned Execution Report (meaningful once pc = "done")
    pending,        \* the resolved step whose remote call is in flight
    calls,          \* log of the client methods invoked, in order
    cache,          \* the Result Cache behind the callbacks: key -> body
    cacheLog,       \* log of cache_get / cache_set invocations, in order, with
                    \* the session identifier the callback put before the key
    observed,       \* log of the observer invocations: the index of the result
                    \* passed, the length of steps_out then, whether it raised
    other_run,      \* a second call of execute_steps, not started or suspended
                    \* in a remote call: its arguments and locals
    ttl_d,          \* TTLCache._d: its items [key, exp, val] in dict order
    clock,          \* time.time(), in ticks
    returned,       \* the last TTLCache method called, its arguments and what
                    \* it returned
    sid,            \* request.session.get("sid") of the request that runs the
                    \* call ("" when the session holds none)
    other_sid       \* the same of the request behind other_run

vars == <<plan, stop_on_error, cache_get, cache_set, on_step, pc, i, ctx,
          steps_out, report, pending, calls, cache, cacheLog, observed, other_run,
          ttl_d, clock, returned, sid, other_sid>>

\* The state of a TTLCache object and its clock.
ttl_vars == <<ttl_d, clock, returned>>

\* The session identifiers of the two requests.
session_vars == <<sid, other_sid>>

-----------------------------------------------------------------------------
(* Scalars *)

None == [t |-> "none", v |-> ""]
Str(s) == [t |-> "str", v |-> s]
Num(s) == [t |-> "num", v |-> s]

IsStr(x) == x.t = "str"

\* Python truthiness of a scalar: None, "" and 0 are falsy.
Truthy(x) == \/ x.t = "str" /\ x.v # ""
             \/ x.t = "num" /\ x.v # "0"

\* str(x)
PyStr(x) == IF x.t = "none" THEN "None" ELSE x.v

(* Templates: step input strings cut at their tokens *)

TNone == [t |-> "none", v |-> <<>>]
T(atoms) == [t |-> "str", v |-> atoms]

Lit(s) == [k |-> "lit", n |-> 0, j |-> 0, s |-> s]
StepRef(n) == [k |-> "step", n |-> n, j |-> 0, s |-> ""]
ResultRef(n, j) == [k |-> "result", n |-> n, j |-> j, s |-> ""]
TokenRef(name) == [k |-> "token", n |-> 0, j |-> 0, s |-> name]

\* The context key a token atom names: f"step{N}.sys_id",
\* f"step{N}.result[{j}].sys_id", or the alias name itself.
StepKey(n) == "step" \o ToString(n) \o ".sys_id"
ResultKey(n, j) == "step" \o ToString(n) \o ".result[" \o ToString(j) \o "].sys_id"

KeyOf(a) == CASE a.k = "step" -> StepKey(a.n)
              [] a.k = "result" -> ResultKey(a.n, a.j)
              [] OTHER -> a.s

\* The text of an atom as it stands in the string.
AtomText(a) == CASE a.k = "lit" -> a.s
                 [] a.k = "step" -> "$" \o StepKey(a.n)
                 [] a.k = "result" -> "$" \o ResultKey(a.n, a.j)
                 [] OTHER -> "<" \o a.s \o ">"

RECURSIVE Text(_)
Text(atoms) == IF atoms = <<>> THEN ""
               ELSE AtomText(Head(atoms)) \o Text(Tail(atoms))

\* Step inputs that are no strings: a number, a list and a mapping of inputs.
TNum(s) == [t |-> "num", v |-> s]
TList(xs) == [t |-> "list", v |-> xs]
TDict(d) == [t |-> "dict", v |-> d]

\* A resolved input as the value carried by a request or a Step Result.
RECURSIVE Plain(_)
Plain(x) ==
    CASE x.t = "str" -> Str(Text(x.v))
      [] x.t = "num" -> Num(x.v)
      [] x.t = "list" -> [t |-> "list", v |-> [p \in DOMAIN x.v |-> Plain(x.v[p])]]
      [] x.t = "dict" -> [t |-> "dict", v |-> [k \in DOMAIN x.v |-> Plain(x.v[k])]]
      [] OTHER -> None

EmptyDict == [k \in {} |-> None]

\* dict.get(key)
Get(d, key) == IF key \in DOMAIN d THEN d[key] ELSE None

-----------------------------------------------------------------------------
(* Response bodies *)

NoResult == [kind |-> "none", rows |-> <<>>]

\* isinstance(row, dict)
IsDictRow(row) == "sys_id" \in DOMAIN row
DictResult(x) == [kind |-> "dict", rows |-> <<[sys_id |-> x]>>]
ListResult(rows) == [kind |-> "list", rows |-> rows]

NullBody == [kind |-> "null", sys_id |-> None, result |-> NoResult, error |-> None]
OtherBody == [kind |-> "other", sys_id |-> None, result |-> NoResult, error |-> None]
Body(top, result, error) ==
    [kind |-> "dict", sys_id |-> top, result |-> result, error |-> error]

-----------------------------------------------------------------------------
(* Step normalisation and operation aliasing *)

\* str.strip() and str.lower() on the operation and table names of the model:
\* every name but the ones listed is already stripped, or lower case.
PyStrip(s) == CASE s = " query " -> "query"
                [] s = " incident " -> "incident"
                [] OTHER -> s

PyLower(s) == CASE s = "Update" -> "update"
                [] s = "GET" -> "get"
                [] OTHER -> s

\* A raw step is a mapping with the keys operation, action, op, table, query,
\* sys_id, sysId, fields, data, params; a key that is absent holds None
\* (TNone for the templates, "" for the names, EmptyDict for the mappings,
\* which `x or {}` makes of an absent mapping).
Or(a, b) == IF a # "" THEN a ELSE b
OrT(a, b) == IF a.t = "str" /\ a.v # <<>> THEN a ELSE b
OrD(a, b) == IF a # EmptyDict THEN a ELSE b

\* A raw step that is not a mapping of strings.
Shaped(shape) == [shape |-> shape]

\* The mapping without any key.
NoKeys ==
    [operation |-> "", action |-> "", op |-> "", table |-> "",
     query |-> TNone, sys_id |-> TNone, sysId |-> TNone,
     fields |-> EmptyDict, data |-> EmptyDict, params |-> EmptyDict]

\* _to_plain_dict: None gives the empty mapping, a mapping is returned as it
\* is (a number or a string has no attributes to convert: see NormalizeError).
_to_plain_dict(obj) == IF "shape" \in DOMAIN obj THEN NoKeys ELSE obj

\* Lines 36, 41 and 42: the exception _normalize_step raises, "" when it
\* returns.  _to_plain_dict raises on a value without attributes, .strip()
\* on a name that is not a string.
NormalizeError(step) ==
    IF "shape" \notin DOMAIN step THEN ""
    ELSE IF step.shape \in {"int", "str"} THEN "ValueError: Cannot convert to dict"
    ELSE IF step.shape \in {"op_int", "table_int"}
         THEN "AttributeError: 'int' object has no attribute 'strip'"
    ELSE ""

_normalize_step(step) ==
    LET d == _to_plain_dict(step) IN
    [operation |-> PyStrip(Or(d.operation, Or(d.action, d.op))),
     table |-> PyStrip(d.table),
     query |-> d.query,
     sys_id |-> OrT(d.sys_id, d.sysId),
     fields |-> OrD(d.fields, d.data),
     params |-> d.params]

\* Mutant of _op_alias: no name stands for another.
OpAliasNone(op) == PyLower(PyStrip(op))

_op_alias(op) ==
    LET o == PyLower(PyStrip(op)) IN
    IF o \in {"read", "fetch"} THEN "get"
    ELSE IF o \in {"list", "search"} THEN "query"
    ELSE IF o = "insert" THEN "create"
    ELSE IF o = "change_update_set" THEN "change_update_set"
    ELSE o

\* plan.steps of a plan object or mapping, or the plan itself when it is a
\* list; None, a mapping without steps and an empty list give no steps.
\* A plan is [kind, steps, plan, actions]; an absent key or attribute holds <<>>.
OrS(a, b) == IF a # <<>> THEN a ELSE b

_extract_steps(p) ==
    CASE p.kind = "none" -> <<>>
      [] p.kind = "object" -> p.steps
      [] p.kind = "dict" -> OrS(p.steps, OrS(p.plan, p.actions))
      [] p.kind = "list" -> p.steps
      [] OTHER -> <<>>

-----------------------------------------------------------------------------
(* Reference substitution *)

\* Mutant of SubPass: a token without a context entry is replaced as well, by
\* the text of None.
SubPassAlways(kind, atoms, c) ==
    [p \in DOMAIN atoms |->
        IF atoms[p].k = kind
        THEN Lit(PyStr(Get(c, KeyOf(atoms[p]))))
        ELSE atoms[p]]

\* One re.sub pass: every atom of the given kind whose key is in the context
\* is replaced by str(value); the others are left in place.
SubPass(kind, atoms, c) ==
    [p \in DOMAIN atoms |->
        IF atoms[p].k = kind /\ Get(c, KeyOf(atoms[p])) # None
        THEN Lit(PyStr(Get(c, KeyOf(atoms[p]))))
        ELSE atoms[p]]

\* _substitute on a string: the three passes in their fixed order.
SubstituteStr(atoms, c) ==
    SubPass("token", SubPass("result", SubPass("step", atoms, c), c), c)

\* Mutant of SubstituteOther: a value that is no string, list or mapping is
\* returned as its text.
SubstituteOtherAsStr(x) == T(<<Lit(IF x.t = "num" THEN x.v ELSE "None")>>)

\* Line 145: a value that is no string, list or mapping is returned as it is.
SubstituteOther(x) == x

\* _substitute: a string goes through the three passes, a list and a mapping
\* are rebuilt from their substituted elements.
RECURSIVE _substitute(_, _)
_substitute(x, c) ==
    CASE x.t = "str" -> T(SubstituteStr(x.v, c))
      [] x.t = "list" -> TList([p \in DOMAIN x.v |-> _substitute(x.v[p], c)])
      [] x.t = "dict" -> TDict([k \in DOMAIN x.v |-> _substitute(x.v[k], c)])
      [] OTHER -> SubstituteOther(x)

\* Lines 229 and 230: query and sys_id are substituted when they are strings.
SubstituteIfStr(x, c) == IF x.t = "str" THEN _substitute(x, c) ELSE x

SubstituteDict(d, c) == [k \in DOMAIN d |-> _substitute(d[k], c)]

PlainDict(d) == [k \in DOMAIN d |-> Plain(d[k])]

-----------------------------------------------------------------------------
(* Identifier capture *)

_extract_sys_id(resp) ==
    IF resp.kind # "dict" THEN None
    ELSE IF IsStr(resp.sys_id) THEN resp.sys_id
    ELSE IF resp.result.kind = "dict" /\ IsStr(resp.result.rows[1].sys_id)
         THEN resp.result.rows[1].sys_id
    ELSE IF /\ resp.result.kind = "list"
            /\ resp.result.rows # <<>>
            /\ IsDictRow(resp.result.rows[1])
            /\ IsStr(resp.result.rows[1].sys_id)
         THEN resp.result.rows[1].sys_id
    ELSE None

\* Mutant of _register_aliases: the key is not built from the step index.
RegisterAliasesFixedKey(step_index, sys_id, table) ==
    <<  <<StepKey(1), sys_id>>  >>
    \o (IF table = "sc_cat_item" THEN << <<"CAT_ITEM_SYS_ID", sys_id>> >> ELSE <<>>)

\* Mutant of _register_aliases: the alias is registered whatever the table.
RegisterAliasesAnyTable(step_index, sys_id, table) ==
    << <<StepKey(step_index), sys_id>>, <<"CAT_ITEM_SYS_ID", sys_id>> >>

\* The assignments _register_aliases makes, in order, as <<key, value>> pairs.
_register_aliases(step_index, sys_id, table) ==
    <<  <<StepKey(step_index), sys_id>>  >>
    \o (IF table = "sc_cat_item" THEN << <<"CAT_ITEM_SYS_ID", sys_id>> >> ELSE <<>>)

\* Mutant of RowWrites: the key holds the 1-based position of the row.
RECURSIVE RowWritesOneBased(_, _, _)
RowWritesOneBased(step_index, rows, j) ==
    IF j > Len(rows) THEN <<>>
    ELSE (IF Truthy(rows[j].sys_id)
          THEN << <<ResultKey(step_index, j), rows[j].sys_id>> >>
          ELSE <<>>)
         \o RowWritesOneBased(step_index, rows, j + 1)

\* The assignments the row loop of _register_ctx_from_response makes.
RECURSIVE RowWrites(_, _, _)
RowWrites(step_index, rows, j) ==
    IF j > Len(rows) THEN <<>>
    ELSE (IF IsDictRow(rows[j]) /\ Truthy(rows[j].sys_id)
          THEN << <<ResultKey(step_index, j - 1), rows[j].sys_id>> >>
          ELSE <<>>)
         \o RowWrites(step_index, rows, j + 1)

\* The assignments _register_ctx_from_response makes, in order.
_register_ctx_from_response(step_index, body) ==
    IF body.kind # "dict" THEN <<>>
    ELSE (IF body.result.kind = "dict" /\ Truthy(body.result.rows[1].sys_id)
          THEN << <<StepKey(step_index), body.result.rows[1].sys_id>> >>
          ELSE <<>>)
         \o (IF body.result.kind = "list"
             THEN RowWrites(step_index, body.result.rows, 1)
             ELSE <<>>)

\* The context after a sequence of assignments.
RECURSIVE Assign(_, _)
Assign(c, writes) ==
    IF writes = <<>> THEN c
    ELSE Assign([k \in DOMAIN c \cup {writes[1][1]} |->
                    IF k = writes[1][1] THEN writes[1][2] ELSE c[k]],
                Tail(writes))

\* Mutant of HasError: the error envelope is never looked at.
HasErrorNever(body) == FALSE

\* body.get("error") is truthy
HasError(body) == body.kind = "dict" /\ Truthy(body.error)

\* Lines 324-330: what a step that ended ok assigns to the context.
CaptureWrites(step_index, table, body) ==
    (IF Truthy(_extract_sys_id(body))
     THEN _register_aliases(step_index, _extract_sys_id(body), table)
     ELSE <<>>)
    \o _register_ctx_from_response(step_index, body)

-----------------------------------------------------------------------------
(* Dispatch *)

DefaultLimit == 25

\* int(x): the text of the integer, or "" where int() raises.
PyInt(x) == IF x.t = "num" THEN x.v
            ELSE IF x.t = "str" /\ x.v \in {"0", "1", "5", "10", "25", "50"} THEN x.v
            ELSE ""

\* dict.setdefault(key, value)
SetDefault(d, key, value) ==
    IF key \in DOMAIN d THEN d
    ELSE [k \in DOMAIN d \cup {key} |-> IF k = key THEN value ELSE d[k]]

\* Lines 217-242: the step normalised, its operation aliased and its
\* references resolved against the context.
Resolve(raw, c, idx) ==
    LET step == _normalize_step(raw) IN
    [i |-> idx,
     operation |-> _op_alias(step.operation),
     table |-> step.table,
     sys_id |-> Plain(SubstituteIfStr(step.sys_id, c)),
     query |-> Plain(SubstituteIfStr(step.query, c)),
     fields |-> PlainDict(SubstituteDict(step.fields, c)),
     params |-> PlainDict(SubstituteDict(step.params, c))]

NoPending ==
    [i |-> 0, operation |-> "", table |-> "", sys_id |-> None, query |-> None,
     fields |-> EmptyDict, params |-> EmptyDict]

SupportedOps == {"create", "update", "delete", "get", "query", "change_update_set"}

\* Mutant of LocalError: a query step is not asked for its filter.
LocalErrorNoFilter(r) ==
    IF r.table = "" THEN "ValueError: Step missing 'table'."
    ELSE IF r.operation \in {"update", "delete", "get"} /\ ~Truthy(r.sys_id)
         THEN "ValueError: requires sys_id."
    ELSE IF r.operation \notin {"create", "update", "delete", "get", "query",
                                "change_update_set"}
         THEN "ValueError: Unsupported operation"
    ELSE ""

\* Lines 248-309: the ValueError execute_steps raises itself before it calls
\* the client, "" when it raises none.
LocalError(r) ==
    IF r.table = "" THEN "ValueError: Step missing 'table'."
    ELSE IF r.operation = "update" /\ ~Truthy(r.sys_id)
         THEN "ValueError: Update requires sys_id."
    ELSE IF r.operation = "delete" /\ ~Truthy(r.sys_id)
         THEN "ValueError: Delete requires sys_id."
    ELSE IF r.operation = "get" /\ ~Truthy(r.sys_id)
         THEN "ValueError: Get requires sys_id."
    ELSE IF r.operation = "query" /\ ~Truthy(r.query)
         THEN "ValueError: Query requires query (sysparm_query)."
    ELSE IF r.operation \notin SupportedOps
         THEN "ValueError: Unsupported operation"
    ELSE ""

\* Lines 285-290: the limit of a query step, as text.
QueryLimit(params2) ==
    IF Get(params2, "sysparm_limit") # None /\ PyInt(params2["sysparm_limit"]) # ""
    THEN PyInt(params2["sysparm_limit"])
    ELSE ToString(DefaultLimit)

\* _sn_query and table_query: the params of the query request, after the two
\* setdefault calls.
QueryParams(r) ==
    SetDefault(SetDefault(r.params, "sysparm_limit", Str(QueryLimit(r.params))),
               "sysparm_query", Str(PyStr(r.query)))

\* Mutant of Request: a delete step is sent as an update.
RequestDeleteAsUpdate(r) ==
    [method |-> CASE r.operation = "delete" -> "table_update"
                  [] r.operation = "change_update_set" -> "change_update_set"
                  [] OTHER -> "table_" \o r.operation,
     table |-> r.table, sys_id |-> Str(PyStr(r.sys_id)), query |-> r.query,
     fields |-> r.fields, params |-> r.params]

\* The client method a step calls, with its arguments.
Request(r) ==
    CASE r.operation = "create" ->
           [method |-> "table_create", table |-> r.table, sys_id |-> None,
            query |-> None, fields |-> r.fields, params |-> EmptyDict]
      [] r.operation = "update" ->
           [method |-> "table_update", table |-> r.table,
            sys_id |-> Str(PyStr(r.sys_id)),
            query |-> None, fields |-> r.fields, params |-> EmptyDict]
      [] r.operation = "delete" ->
           [method |-> "table_delete", table |-> r.table,
            sys_id |-> Str(PyStr(r.sys_id)),
            query |-> None, fields |-> EmptyDict, params |-> EmptyDict]
      [] r.operation = "get" ->
           [method |-> "table_get", table |-> r.table,
            sys_id |-> Str(PyStr(r.sys_id)),
            query |-> None, fields |-> EmptyDict, params |-> r.params]
      [] r.operation = "query" ->
           [method |-> "table_query", table |-> r.table, sys_id |-> None,
            query |-> Str(PyStr(r.query)), fields |-> EmptyDict,
            params |-> QueryParams(r)]
      [] OTHER ->
           [method |-> "change_update_set", table |-> "",
            sys_id |-> Str(PyStr(r.sys_id)),
            query |-> None, fields |-> EmptyDict, params |-> EmptyDict]

\* Mutant of ClientError: the client checks nothing before it sends.
ClientErrorNone(req) == ""

\* ServiceNowClient.change_update_set: the ValueError the client raises before
\* it sends anything, "" when it sends the request.
ClientError(req) ==
    IF req.method = "change_update_set" /\ (req.sys_id.v = "" \/ Len(req.sys_id.v) # 32)
    THEN "ValueError: sys_id must be a 32-char string"
    ELSE ""

\* step_result["params"] once the step has called the client: _sn_query
\* updates a non-empty params2 in place and replaces an empty one.
ResultParams(r) ==
    IF r.operation = "query" /\ r.params # EmptyDict THEN QueryParams(r) ELSE r.params

\* A mapping as Python holds it: its entries in the order they were written.
\* Orders(d) are the orders the entries of d can have been written in.
Orders(d) ==
    {ord \in [1..Cardinality(DOMAIN d) -> DOMAIN d] :
        \A p, q \in DOMAIN ord : p # q => ord[p] # ord[q]}

Entries(d, ord) == [p \in DOMAIN ord |-> <<ord[p], d[ord[p]]>>]

\* The order the entries of the resolved params were written in: that of the
\* plan, which the mappings of the model do not keep; any one of Orders(d).
InsertionOrder(d) == CHOOSE ord \in Orders(d) : TRUE

\* The names of params entries, in the order sorted() puts them.
SortedNames == <<"sysparm_fields", "sysparm_limit", "sysparm_query", "sysparm_view">>

\* Mutant of SortKeys: the entries are serialised in the order written.
SortKeysNone(items) == items

\* json.dumps(..., sort_keys=True): the entries in the order of their names.
SortKeys(items) ==
    LET sorted == SelectSeq(SortedNames,
                            LAMBDA n : \E p \in DOMAIN items : items[p][1] = n)
    IN [p \in DOMAIN sorted |->
            items[CHOOSE q \in DOMAIN items : items[q][1] = sorted[p]]]

\* The JSON text of a scalar.
json_scalar(x) ==
    CASE x.t = "none" -> "null"
      [] x.t = "num" -> x.v
      [] OTHER -> "\"" \o x.v \o "\""

RECURSIVE json_items(_)
json_items(items) ==
    IF items = <<>> THEN ""
    ELSE "\"" \o Head(items)[1] \o "\": " \o json_scalar(Head(items)[2])
         \o (IF Len(items) > 1 THEN ", " ELSE "") \o json_items(Tail(items))

\* Line 21: json.dumps({"op", "table", "sys_id", "query", "params"},
\* sort_keys=True), the top-level keys in sorted order as well.
json_dumps(op, table, sys_id, query, items) ==
    "{\"op\": \"" \o op \o "\", \"params\": {" \o json_items(SortKeys(items))
    \o "}, \"query\": " \o json_scalar(query)
    \o ", \"sys_id\": " \o json_scalar(sys_id)
    \o ", \"table\": \"" \o table \o "\"}"

\* hashlib.sha256(raw).hexdigest()[:32]: a digest without collisions on the
\* texts of the model, for which the text itself stands.
sha256_32(raw) == raw

\* _cache_key; params is the mapping as Python holds it, with its order.
_cache_key(op, table, sys_id, query, params) ==
    "sn:" \o sha256_32(json_dumps(op, table, sys_id, query, params))

\* The arguments _cache_key is called with at lines 268 and 294.
CacheArgsOf(r) ==
    IF r.operation = "get"
    THEN [op |-> "get", table |-> r.table, sys_id |-> Str(PyStr(r.sys_id)),
          query |-> None, params |-> r.params]
    ELSE [op |-> "query", table |-> r.table, sys_id |-> None,
          query |-> Str(PyStr(r.query)), params |-> r.params]

CacheKeyOf(r) ==
    LET a == CacheArgsOf(r) IN
    _cache_key(a.op, a.table, a.sys_id, a.query,
               Entries(a.params, InsertionOrder(a.params)))

\* What secrets.token_urlsafe(16) may return: a token no session holds.  One
\* is drawn only when the session of the request holds no identifier.
Tokens == {"t1", "t2"}
Drawn == IF sid = "" THEN Tokens \ {other_sid} ELSE {""}

\* _sid(request), lines 305-311: the identifier of the session, a new token
\* when it holds none.
_sid(s, fresh) == IF s = "" THEN fresh ELSE s

\* Mutant of SessionKey: the key is used as the executor gives it.
SessionKeyBare(s, k) == k

\* f"{_sid(request)}:{k}", the key the callbacks of api_execute_stream use.
SessionKey(s, k) == s \o ":" \o k

\* Mutant of Lookup: every step looks its key up when a cache is passed.
LookupAlways(r) == cache_get

\* Lines 269 and 293: whether the step looks its key up in the cache.
Lookup(r) == \/ r.operation = "get" /\ cache_get
             \/ r.operation = "query" /\ cache_get /\ cache_set

\* Mutant of CacheGet: every lookup misses.
CacheGetMiss(key) == NullBody

\* cache_get(key)
CacheGet(key) == IF key \in DOMAIN cache THEN cache[key] ELSE NullBody

-----------------------------------------------------------------------------
(* The execution loop *)

\* Line 206.
raw_steps == _extract_steps(plan)

CallEntry(r, req, outcome) ==
    [i |-> r.i, method |-> req.method, table |-> req.table, sys_id |-> req.sys_id,
     query |-> req.query, fields |-> req.fields, params |-> req.params,
     outcome |-> outcome, body |-> NullBody]

\* Mutant of OverallOk: all() alone, which is True of no results.
OverallOkVacuous(out) == \A k \in DOMAIN out : out[k].ok

\* all(s.get("ok") for s in steps_out) if steps_out else False
OverallOk(out) == out # <<>> /\ \A k \in DOMAIN out : out[k].ok

\* Lines 363-366: the Execution Report.
Report(out) == [ok |-> OverallOk(out), steps |-> out]

\* Mutants of Halts: the loop never breaks on a failure; it breaks on every
\* failure, whatever stop_on_error says.
HaltsAtEndOnly(ok, idx) == idx = Len(raw_steps)
HaltsOnAnyFailure(ok, idx) == ~ok \/ idx = Len(raw_steps)

\* Lines 216 and 360-361: whether the loop ends after the step at idx.
Halts(ok, idx) == (~ok /\ stop_on_error) \/ idx = Len(raw_steps)

DisplayLimit == 10

\* [x.strip() for x in s.split(",") if x.strip()] on the sysparm_fields
\* texts of the model.
ColumnsOf(s) ==
    CASE s = "name,active" -> <<"name", "active">>
      [] s = " name , ,active" -> <<"name", "active">>
      [] s = "name,name" -> <<"name", "name">>
      [] s = "," -> <<>>
      [] s = "" -> <<>>
      [] OTHER -> <<s>>

\* Mutant of ProjectRow: the row is shown whole.
ProjectRowWhole(row, fields_list) == row

\* {k: r.get(k) for k in fields_list}
ProjectRow(row, fields_list) ==
    [k \in {fields_list[p] : p \in DOMAIN fields_list} |-> Get(row, k)]

\* The rows that are objects, in order.
RECURSIVE DictRows(_)
DictRows(rows) ==
    IF rows = <<>> THEN <<>>
    ELSE (IF IsDictRow(Head(rows)) THEN <<Head(rows)>> ELSE <<>>) \o DictRows(Tail(rows))

\* rows[:n]
FirstRows(rows, n) == SubSeq(rows, 1, IF Len(rows) < n THEN Len(rows) ELSE n)

NoDisplay == [present |-> FALSE, rows |-> <<>>]

\* Mutant of displayRows: the requested columns are shown for the first rows
\* only, up to the display limit.
DisplayRowsCapped(ok, r, body) ==
    IF ~(ok /\ r.operation = "query" /\ body.kind = "dict" /\ body.result.kind = "list")
    THEN NoDisplay
    ELSE LET fields_list == IF Truthy(Get(r.params, "sysparm_fields"))
                            THEN ColumnsOf(PyStr(r.params["sysparm_fields"]))
                            ELSE <<>>
             shown == FirstRows(DictRows(body.result.rows), DisplayLimit)
         IN [present |-> TRUE,
             rows |-> IF fields_list # <<>>
                      THEN [p \in DOMAIN shown |-> ProjectRow(shown[p], fields_list)]
                      ELSE FirstRows(body.result.rows, DisplayLimit)]

\* Lines 338-350: step_result["displayRows"], absent unless the step is a
\* successful query whose result is a list.
displayRows(ok, r, body) ==
    IF ~(ok /\ r.operation = "query" /\ body.kind = "dict" /\ body.result.kind = "list")
    THEN NoDisplay
    ELSE LET fields_list == IF Truthy(Get(r.params, "sysparm_fields"))
                            THEN ColumnsOf(PyStr(r.params["sysparm_fields"]))
                            ELSE <<>>
             dicts == DictRows(body.result.rows)
         IN [present |-> TRUE,
             rows |-> IF fields_list # <<>>
                      THEN [p \in DOMAIN dicts |-> ProjectRow(dicts[p], fields_list)]
                      ELSE FirstRows(body.result.rows, DisplayLimit)]

\* Mutant of Captured: identifiers are captured from failed steps too.
CapturedRegardless(ok, step_index, table, body) ==
    CaptureWrites(step_index, table, body)

\* Mutant of Captured: identifiers are captured as soon as a body came back,
\* before it is examined for an error indicator.
CapturedIfReturned(ok, step_index, table, body) ==
    IF body.kind = "dict" THEN CaptureWrites(step_index, table, body) ELSE <<>>

\* Mutant of Captured: the identifiers are registered under the number of
\* the step that follows.
CapturedForNext(ok, step_index, table, body) ==
    IF ok THEN CaptureWrites(step_index + 1, table, body) ELSE <<>>

\* Line 324: only a step that ended ok assigns to the context.
Captured(ok, step_index, table, body) ==
    IF ok THEN CaptureWrites(step_index, table, body) ELSE <<>>

\* Mutant of ErrorMsg: an embedded error is given no text.
ErrorMsgOfExceptionOnly(err, body) == err

\* Lines 313 and 321: the error text of a failed step, from the exception
\* `err` or, when none was raised, from the error indicator of the body.
ErrorMsg(err, body) ==
    IF err # "" THEN err ELSE "ServiceNow error: " \o PyStr(body.error)

\* Mutant of ObserverAborts: what the observer raises leaves the loop.
ObserverAbortsOnRaise(raised) == raised

\* Lines 354-358: whether the run is aborted by the observer call; `raised`
\* tells whether the observer raised.  `except Exception: pass` swallows it.
ObserverAborts(raised) == FALSE

\* Lines 316-366: the rest of an iteration once the try block is left with
\* `body` (no exception, err = "") or with the exception text `err`: the
\* outcome is classified, identifiers are captured, the Step Result is appended,
\* the observer is called (what it raises is swallowed), and the loop goes on,
\* or ends and execute_steps returns the report.
Finish(r, body, err, params) ==
    LET ok == err = "" /\ ~HasError(body)
        error_msg == ErrorMsg(err, body)
        created_sys_id == _extract_sys_id(body)
        writes == Captured(ok, r.i, r.table, body)
        step_result ==
            [i |-> r.i, operation |-> r.operation, table |-> r.table,
             sys_id |-> IF ok /\ Truthy(created_sys_id) THEN created_sys_id
                        ELSE r.sys_id,
             query |-> r.query, fields |-> r.fields, params |-> params,
             ok |-> ok,
             error |-> IF ok THEN None ELSE Str(error_msg),
             response |-> body,
             displayRows |-> displayRows(ok, r, body)]
        out == Append(steps_out, step_result)
    IN /\ ctx' = Assign(ctx, writes)
       /\ steps_out' = out
       /\ pending' = NoPending
       /\ \E raised \in (IF on_step THEN BOOLEAN ELSE {FALSE}) :
            /\ observed' = IF on_step
                           THEN Append(observed, [i |-> step_result.i, len |-> Len(out),
                                                  raised |-> raised])
                           ELSE observed
            /\ IF ObserverAborts(raised)
               THEN /\ pc' = "raised"
                    /\ i' = i
                    /\ UNCHANGED report
               ELSE IF Halts(ok, r.i)
               THEN /\ pc' = "done"
                    /\ report' = Report(out)
                    /\ i' = i
               ELSE /\ pc' = "loop"
                    /\ i' = i + 1
                    /\ UNCHANGED report

\* Mutant of SharedWithPlan: the step is resolved and dispatched on the
\* mappings of the plan themselves.
SharedWithPlanAlways == TRUE

\* Whether fields2 and params2, which the step resolves, hands to the client
\* and lets _sn_query update, are the mapping objects of the caller's plan:
\* never, for _substitute builds new mappings (line 144) from deep copies
\* (lines 227-228).
SharedWithPlan == FALSE

\* A resolved mapping as step input.
Templates(d) ==
    [k \in DOMAIN d |-> IF d[k] = None THEN TNone ELSE T(<<Lit(d[k].v)>>)]

\* The caller's plan once step idx has been resolved to r and dispatched: what
\* is written to a mapping shared with the plan shows in the plan.
PlanAfterStep(p, idx, r) ==
    IF ~SharedWithPlan \/ "shape" \in DOMAIN p.steps[idx] THEN p
    ELSE [p EXCEPT !.steps[idx].fields = Templates(r.fields),
                   !.steps[idx].params = Templates(ResultParams(r))]

\* Lines 205-208 and, for a plan without steps, 363-366.
Begin ==
    /\ pc = "init"
    /\ IF raw_steps = <<>>
       THEN /\ pc' = "done"
            /\ report' = Report(steps_out)
       ELSE /\ pc' = "loop"
            /\ UNCHANGED report
    /\ UNCHANGED <<ttl_vars, session_vars, other_run, plan, stop_on_error, cache_get, cache_set, on_step, i, ctx,
                   steps_out, pending, calls, cache, cacheLog, observed>>

\* Mutant of Ready: the loop goes on while a remote call is suspended.
ReadyWhileAwaiting == pc \in {"loop", "await"}

\* The loop of line 216 takes its next step when the body of the step
\* before has run to its end: every remote call is awaited in place.
Ready == pc = "loop"

\* Lines 216-309 up to the point where the step is suspended in its remote
\* call: a step that fails validation, is served from the cache, or is
\* rejected by the client before anything is sent, runs to its end here.
\* Line 217 is outside the try block: what _normalize_step raises leaves
\* execute_steps, and no report is returned.
Dispatch ==
    /\ Ready
    /\ \E fresh \in Drawn :
       LET r == Resolve(raw_steps[i], ctx, i)
           req == Request(r)
           ck == CacheKeyOf(r)
           sk == SessionKey(_sid(sid, fresh), ck)
           looked_up == /\ NormalizeError(raw_steps[i]) = ""
                        /\ LocalError(r) = ""
                        /\ Lookup(r)
                        /\ CacheGet(sk) # NullBody \/ ClientError(req) = ""
       IN /\ sid' = IF looked_up THEN _sid(sid, fresh) ELSE sid
          /\ IF NormalizeError(raw_steps[i]) # ""
             THEN /\ pc' = "raised"
                  /\ UNCHANGED <<i, ctx, steps_out, report, pending, calls, cache,
                                 cacheLog, observed>>
             ELSE IF LocalError(r) # ""
             THEN /\ Finish(r, NullBody, LocalError(r), r.params)
                  /\ UNCHANGED <<calls, cache, cacheLog>>
             ELSE IF Lookup(r) /\ CacheGet(sk) # NullBody
             THEN /\ cacheLog' = Append(cacheLog, [i |-> i, op |-> "get", key |-> ck, hit |-> TRUE,
                                                   args |-> CacheArgsOf(r),
                                                   sid |-> _sid(sid, fresh)])
                  /\ Finish(r, CacheGet(sk), "", r.params)
                  /\ UNCHANGED <<calls, cache>>
             ELSE IF ClientError(req) # ""
             THEN /\ calls' = Append(calls, CallEntry(r, req, "rejected"))
                  /\ Finish(r, NullBody, ClientError(req), r.params)
                  /\ UNCHANGED <<cache, cacheLog>>
             ELSE /\ calls' = Append(calls, CallEntry(r, req, "sent"))
                  /\ cacheLog' = IF Lookup(r)
                                 THEN Append(cacheLog, [i |-> i, op |-> "get", key |-> ck, hit |-> FALSE,
                                                   args |-> CacheArgsOf(r),
                                                   sid |-> _sid(sid, fresh)])
                                 ELSE cacheLog
                  /\ pending' = r
                  /\ pc' = "await"
                  /\ UNCHANGED <<i, ctx, steps_out, report, cache, observed>>
    /\ plan' = IF NormalizeError(raw_steps[i]) # "" THEN plan
               ELSE PlanAfterStep(plan, i, Resolve(raw_steps[i], ctx, i))
    /\ UNCHANGED <<ttl_vars, other_sid, other_run, stop_on_error, cache_get, cache_set, on_step>>

\* The remote call returns `body`: a looked-up key is stored (lines 275-276
\* and 300), then the iteration is finished.
Respond(bodies) ==
    /\ pc = "await"
    /\ \E body \in bodies, fresh \in Drawn :
        LET r == pending
            ck == CacheKeyOf(r)
            sk == SessionKey(_sid(sid, fresh), ck)
            store == Lookup(r) /\ cache_set
        IN /\ sid' = IF store THEN _sid(sid, fresh) ELSE sid
           /\ calls' = [calls EXCEPT ![Len(calls)].outcome = "returned",
                                     ![Len(calls)].body = body]
           /\ cache' = IF store
                       THEN [k \in DOMAIN cache \cup {sk} |->
                                IF k = sk THEN body ELSE cache[k]]
                       ELSE cache
           /\ cacheLog' = IF store
                          THEN Append(cacheLog, [i |-> i, op |-> "set", key |-> ck, hit |-> FALSE,
                                            args |-> CacheArgsOf(r),
                                            sid |-> _sid(sid, fresh)])
                          ELSE cacheLog
           /\ Finish(r, body, "", ResultParams(r))
    /\ UNCHANGED <<ttl_vars, other_sid, other_run, plan, stop_on_error, cache_get, cache_set, on_step>>

\* The remote call raises (transport failure or HTTP error status).
Raise ==
    /\ pc = "await"
    /\ calls' = [calls EXCEPT ![Len(calls)].outcome = "raised"]
    /\ Finish(pending, NullBody, "HTTPError: request failed", ResultParams(pending))
    /\ UNCHANGED <<ttl_vars, session_vars, other_run, plan, stop_on_error, cache_get, cache_set, on_step, cache, cacheLog>>

-----------------------------------------------------------------------------
(* Inputs *)

MaxSteps == 2

IdA == "aaaaaaaaaaaaaaaaaaaaaaaaaaaaaaaa"
IdB == "bbbbbbbbbbbbbbbbbbbbbbbbbbbbbbbb"
IdC == "cccccccccccccccccccccccccccccccc"

RawStep(operation, table, sys_id, query, fields, params) ==
    [operation |-> operation, action |-> "", op |-> "", table |-> table,
     query |-> query, sys_id |-> sys_id, sysId |-> TNone,
     fields |-> fields, data |-> EmptyDict, params |-> params]

\* recordId inputs: missing, empty, a literal identifier, a reference to
\* step 1, the alias token.
SysIds == {TNone, T(<<>>), T(<<Lit(IdC)>>), T(<<StepRef(1)>>),
           T(<<TokenRef("CAT_ITEM_SYS_ID")>>)}
\* filter inputs: missing, empty, a literal filter, one with a reference to
\* step 1, one with a reference to the first row of step 1.
Queries == {TNone, T(<<>>), T(<<Lit("active=true")>>), T(<<Lit("parent="), StepRef(1)>>),
            T(<<Lit("parent="), ResultRef(1, 0)>>)}
FieldSets == {EmptyDict, [parent |-> T(<<StepRef(1)>>)]}
ParamSets == {EmptyDict, [sysparm_view |-> T(<<StepRef(1)>>)]}

StepDomain ==
    {RawStep("create", t, TNone, TNone, f, EmptyDict) :
        t \in {"", "incident", "sc_cat_item"}, f \in FieldSets}
    \cup {RawStep(o, "incident", s, TNone, [state |-> T(<<Lit("2")>>)], EmptyDict) :
        o \in {"update"}, s \in SysIds}
    \cup {RawStep(o, "incident", s, TNone, EmptyDict, EmptyDict) :
        o \in {"delete", "change_update_set"}, s \in SysIds}
    \cup {RawStep("get", "incident", s, TNone, EmptyDict, EmptyDict) : s \in SysIds}
    \cup {RawStep("get", "incident", T(<<Lit(IdC)>>), TNone, EmptyDict, p) :
        p \in ParamSets}
    \cup {RawStep("query", "incident", TNone, q, EmptyDict, EmptyDict) : q \in Queries}
    \cup {RawStep("note", t, TNone, TNone, EmptyDict, EmptyDict) : t \in {"", "incident"}}
    \cup {RawStep("list", "incident", TNone, T(<<>>), EmptyDict, EmptyDict)}
    \cup {RawStep("query", "incident", TNone, T(<<Lit("active=true")>>), EmptyDict,
                  [sysparm_limit |-> l]) :
            l \in {T(<<Lit("10")>>), T(<<Lit("abc")>>), TNone}}

SeqsUpTo(S, n) == UNION {[1..m -> S] : m \in 0..n}

Plan(kind, steps) == [kind |-> kind, steps |-> steps, plan |-> <<>>, actions |-> <<>>]

\* Plans: an SNPlan object with up to MaxSteps steps, and the shapes without
\* steps (None, an empty mapping, an empty list, an object without steps).
Plans(S) ==
    {Plan("object", ss) : ss \in SeqsUpTo(S, MaxSteps)}
    \cup {Plan(k, <<>>) : k \in {"none", "dict", "list", "other"}}

\* Responses of the remote side.
Bodies ==
    {Body(Str(IdA), NoResult, None),
     Body(None, DictResult(Str(IdB)), None),
     Body(None, NoResult, None),
     Body(None, DictResult(Str(IdB)), Str("Operation failed"))}

\* No second call.
NoOther == [run |-> "none"]

\* A TTLCache as constructed (line 10), at the start of the clock.
NoCall == [op |-> "none", key |-> "", val |-> "", found |-> FALSE, t |-> 0, gone |-> {}]

NoTTL ==
    /\ ttl_d = <<>>
    /\ clock = 0
    /\ returned = NoCall

\* One request, of a session that holds an identifier.
OneSession == sid = "s1" /\ other_sid = ""

InitWith(plans, flags) ==
    /\ plan \in plans
    /\ stop_on_error \in BOOLEAN
    /\ cache_get \in flags
    /\ cache_set = cache_get
    /\ on_step \in flags
    /\ pc = "init"
    /\ i = 1
    /\ ctx = EmptyDict
    /\ steps_out = <<>>
    /\ report = [ok |-> FALSE, steps |-> <<>>]
    /\ pending = NoPending
    /\ calls = <<>>
    /\ cache = EmptyDict
    /\ cacheLog = <<>>
    /\ observed = <<>>
    /\ other_run = NoOther
    /\ NoTTL
    /\ OneSession

Init == InitWith(Plans(StepDomain), BOOLEAN)

Next == Begin \/ Dispatch \/ Respond(Bodies) \/ Raise

Spec == Init /\ [][Next]_vars

(* Identifier capture: few steps, every shape of response.  No cache and no
   observer are passed, as execute_plan calls execute_steps. *)

MaxRows == 2

\* Steps that produce identifiers and steps that refer to those of step 1 in
\* their recordId, fields, params and filter.
RegSteps ==
    {RawStep("create", t, TNone, TNone, EmptyDict, EmptyDict) :
        t \in {"incident", "sc_cat_item"}}
    \cup {RawStep("query", "incident", TNone, q, EmptyDict, EmptyDict) :
        q \in {T(<<Lit("active=true")>>), T(<<Lit("parent="), StepRef(1)>>)}}
    \cup {RawStep("update", "incident", T(<<StepRef(1)>>), TNone,
                  [parent |-> T(<<StepRef(1)>>)], EmptyDict),
          RawStep("get", "incident", T(<<StepRef(1)>>), TNone, EmptyDict,
                  [sysparm_view |-> T(<<StepRef(1)>>)])}

\* The sys_id of a row, of a result object, of the top level: absent, an
\* identifier, an empty string, a number.
RowIds == {None, Str(IdB), Str(IdC)}
ResultIds == {None, Str(""), Str(IdB), Num("7")}
Rows == UNION {[1..m -> [sys_id : RowIds]] : m \in 0..MaxRows}

Results ==
    {NoResult} \cup {DictResult(x) : x \in ResultIds} \cup {ListResult(rs) : rs \in Rows}

RegBodies ==
    {Body(top, res, None) : top \in {None, Str(IdA)}, res \in Results}
    \cup {Body(Str(""), res, None) :
            res \in {NoResult, DictResult(Str(IdB)), ListResult(<<[sys_id |-> Str(IdB)]>>)}}
    \cup {Body(None, DictResult(Str(IdB)), Str("Operation failed")), OtherBody}

InitReg == InitWith(Plans(RegSteps), {FALSE})

NextReg == Begin \/ Dispatch \/ Respond(RegBodies) \/ Raise

SpecReg == InitReg /\ [][NextReg]_vars

-----------------------------------------------------------------------------
(* Properties of the execution loop *)

\* The plan step behind the k-th Step Result.
StepOf(k) == _normalize_step(raw_steps[k])

\* The Step Results so far are those of plan steps 1..Len(steps_out), in order.
InInputOrder ==
    \A k \in DOMAIN steps_out :
        /\ k <= Len(raw_steps)
        /\ steps_out[k].i = k
        /\ steps_out[k].operation = _op_alias(StepOf(k).operation)
        /\ steps_out[k].table = StepOf(k).table

\* C1: with stop_on_error the run halts at the first failed step k: the report
\* holds exactly the results of steps 1..k, only the last of them failed, and
\* no client call and no cache access was made for a step after k.
C1_HaltsAtFirstFailure ==
    stop_on_error =>
        /\ InInputOrder
        /\ \A k \in DOMAIN steps_out :
            ~steps_out[k].ok =>
                /\ k = Len(steps_out)
                /\ pc = "done"
                /\ report.steps = steps_out
                /\ ~report.ok
                /\ \A c \in DOMAIN calls : calls[c].i <= k
                /\ \A c \in DOMAIN cacheLog : cacheLog[c].i <= k

\* A plan [A, B] whose step A was sent to the remote side and failed: the
\* report holds the one result of A.
C1_Witness ==
    /\ stop_on_error
    /\ pc = "done"
    /\ Len(raw_steps) = 2
    /\ Len(report.steps) = 1
    /\ ~report.steps[1].ok
    /\ Len(calls) = 1

\* C3: the overall ok is true iff the steps list is non-empty and every Step
\* Result in it is ok; a plan without steps returns ok = false, no steps, and
\* calls nothing.
C3_OverallOk ==
    pc = "done" =>
        /\ report.ok <=> (report.steps # <<>>
                          /\ \A k \in DOMAIN report.steps : report.steps[k].ok)
        /\ raw_steps = <<>> =>
            /\ report = [ok |-> FALSE, steps |-> <<>>]
            /\ calls = <<>>
            /\ cacheLog = <<>>

\* A plan from which no steps are extracted has returned.
C3_Witness ==
    /\ pc = "done"
    /\ plan.kind = "dict"
    /\ report.steps = <<>>
    /\ ~report.ok

\* A step input with no reference token.
NoTokenIn(x) == \A p \in DOMAIN x.v : x.v[p].k = "lit"

NoTokens(step) ==
    /\ NoTokenIn(step.sys_id)
    /\ NoTokenIn(step.query)
    /\ \A f \in DOMAIN step.fields : NoTokenIn(step.fields[f])
    /\ \A f \in DOMAIN step.params : NoTokenIn(step.params[f])

\* Every step of the plan passes validation and holds no reference.
WellFormedNoRefs ==
    \A k \in DOMAIN raw_steps :
        /\ NoTokens(StepOf(k))
        /\ LocalError(Resolve(raw_steps[k], EmptyDict, k)) = ""
        /\ ClientError(Request(Resolve(raw_steps[k], EmptyDict, k))) = ""

\* The ok of the k-th result reflects the remote call of step k: the call
\* returned a body without an error indicator.  A step served from the cache
\* made no call: its body is the one an earlier call of the run returned.
OkReflectsCall(k) ==
    LET own == {c \in DOMAIN calls : calls[c].i = k} IN
    IF own # {}
    THEN \A c \in own :
            steps_out[k].ok <=>
                (calls[c].outcome = "returned" /\ ~Truthy(calls[c].body.error))
    ELSE \E c \in DOMAIN calls :
            /\ calls[c].i < k
            /\ calls[c].outcome = "returned"
            /\ calls[c].body = steps_out[k].response
            /\ steps_out[k].ok <=> ~Truthy(calls[c].body.error)

SomeFailed == \E k \in DOMAIN steps_out : ~steps_out[k].ok

\* C4 as stated: a well-formed plan without references yields one Step Result
\* per plan step, whatever stop_on_error is.
C4_OnePerStep ==
    (pc = "done" /\ WellFormedNoRefs) =>
        /\ Len(report.steps) = Len(raw_steps)
        /\ InInputOrder
        /\ \A k \in DOMAIN steps_out : OkReflectsCall(k)

\* C4 amended: a well-formed plan without references yields one Step Result
\* per executed step, in input order: every step when stop_on_error is false
\* or no step fails, the steps up to the first failed one when it is true;
\* each ok reflects the step's remote call (or cached body).
C4_OnePerExecutedStep ==
    WellFormedNoRefs =>
        /\ InInputOrder
        /\ \A k \in DOMAIN steps_out : OkReflectsCall(k)
        /\ pc = "done" =>
            /\ report.steps = steps_out
            /\ IF stop_on_error /\ SomeFailed
               THEN ~steps_out[Len(steps_out)].ok
                    /\ \A k \in 1..(Len(steps_out) - 1) : steps_out[k].ok
               ELSE Len(steps_out) = Len(raw_steps)

\* A well-formed plan of two steps whose first call returned an embedded
\* error, with stop_on_error: one result.
C4_Witness ==
    /\ WellFormedNoRefs
    /\ stop_on_error
    /\ pc = "done"
    /\ Len(raw_steps) = 2
    /\ Len(report.steps) = 1
    /\ calls[1].outcome = "returned"
    /\ Truthy(calls[1].body.error)

\* C5: without stop_on_error a plan of n steps yields n Step Results, in input
\* order with index 1..n, and the overall ok is false when one of them failed.
C5_RunsEveryStep ==
    (~stop_on_error /\ pc = "done") =>
        /\ Len(report.steps) = Len(raw_steps)
        /\ report.steps = steps_out
        /\ InInputOrder
        /\ SomeFailed => ~report.ok

\* Step 1 failed and step 2 was still executed, and succeeded.
C5_Witness ==
    /\ ~stop_on_error
    /\ pc = "done"
    /\ Len(report.steps) = 2
    /\ ~report.steps[1].ok
    /\ report.steps[2].ok
    /\ ~report.ok

\* The errors raised before anything is sent: by execute_steps, by the client.
ValidationErrors ==
    {Str("ValueError: Step missing 'table'."),
     Str("ValueError: Update requires sys_id."),
     Str("ValueError: Delete requires sys_id."),
     Str("ValueError: Get requires sys_id."),
     Str("ValueError: Query requires query (sysparm_query)."),
     Str("ValueError: Unsupported operation"),
     Str("ValueError: sys_id must be a 32-char string")}

\* The recordId of plan step k is missing or empty (a string with any text,
\* a token included, resolves to a non-empty string).
NoRecordId(k) == StepOf(k).sys_id \in {TNone, T(<<>>)}

-----------------------------------------------------------------------------
(* Properties of reference resolution and identifier capture *)

\* The identifier a response yields by the stated precedence: its top-level
\* sys_id string, else the sys_id string of its result object, else that of
\* the first row of its result list.
Yielded(resp) ==
    IF resp.kind # "dict" THEN None
    ELSE IF IsStr(resp.sys_id) THEN resp.sys_id
    ELSE IF resp.result.kind \in {"dict", "list"}
            /\ resp.result.rows # <<>>
            /\ IsStr(resp.result.rows[1].sys_id)
         THEN resp.result.rows[1].sys_id
    ELSE None

\* Step n succeeded and its response yielded an identifier.
Produced(n) ==
    /\ n \in DOMAIN steps_out
    /\ steps_out[n].ok
    /\ Truthy(Yielded(steps_out[n].response))

\* The string x refers to step n by $step<n>.sys_id, and holds no other token.
RefersTo(x, n) ==
    /\ x.t = "str"
    /\ \E p \in DOMAIN x.v : x.v[p] = StepRef(n)
    /\ \A p \in DOMAIN x.v : x.v[p].k = "lit" \/ x.v[p] = StepRef(n)

\* x with its $step<n>.sys_id tokens replaced by the identifier id.
Replaced(x, n, id) ==
    Str(Text([p \in DOMAIN x.v |-> IF x.v[p] = StepRef(n) THEN Lit(id.v) ELSE x.v[p]]))

\* C2: once step n succeeded and yielded identifier X, every later step's
\* request carries X where its recordId, filter, fields or params held
\* $step<n>.sys_id.
C2_ReferenceResolved ==
    \A c \in DOMAIN calls :
        \A n \in 1..(calls[c].i - 1) :
            Produced(n) =>
                LET st == StepOf(calls[c].i)
                    id == Yielded(steps_out[n].response)
                    m == calls[c].method
                IN /\ (m \in {"table_update", "table_delete", "table_get", "change_update_set"}
                       /\ RefersTo(st.sys_id, n))
                        => calls[c].sys_id = Replaced(st.sys_id, n, id)
                   /\ (m = "table_query" /\ RefersTo(st.query, n))
                        => calls[c].query = Replaced(st.query, n, id)
                   /\ \A f \in DOMAIN st.fields :
                        (m \in {"table_create", "table_update"} /\ RefersTo(st.fields[f], n))
                        => calls[c].fields[f] = Replaced(st.fields[f], n, id)
                   /\ \A f \in DOMAIN st.params :
                        (m \in {"table_get", "table_query"} /\ RefersTo(st.params[f], n))
                        => calls[c].params[f] = Replaced(st.params[f], n, id)

\* The k-th step succeeded with a response whose result is a list of rows.
ListStep(k) ==
    /\ steps_out[k].ok
    /\ steps_out[k].response.kind = "dict"
    /\ steps_out[k].response.result.kind = "list"

\* Every row of step k's response that carries a (non-empty) sys_id is
\* registered under stepK.result[j].sys_id, and no other row is.
RowsRegistered(k) ==
    LET rows == steps_out[k].response.result.rows IN
    \A j \in DOMAIN rows :
        IF Truthy(rows[j].sys_id)
        THEN Get(ctx, ResultKey(k, j - 1)) = rows[j].sys_id
        ELSE ResultKey(k, j - 1) \notin DOMAIN ctx

\* C6 as stated: a successful step whose result is a list registers
\* stepN.result[j].sys_id for its rows and does not set stepN.sys_id.
C6_ListSetsNoStepKey ==
    \A k \in DOMAIN steps_out :
        ListStep(k) => (RowsRegistered(k) /\ StepKey(k) \notin DOMAIN ctx)

\* C6 amended: such a step registers stepN.result[j].sys_id for every row that
\* carries a non-empty sys_id, and it sets stepN.sys_id to the identifier the
\* response yields (its top-level sys_id string, else the first row's sys_id
\* string) whenever that is non-empty; stepN.sys_id stays unset only if it is
\* not.
C6_ListSetsFirstRow ==
    \A k \in DOMAIN steps_out :
        ListStep(k) =>
            LET resp == steps_out[k].response
                id == IF IsStr(resp.sys_id) THEN resp.sys_id
                      ELSE IF resp.result.rows # <<>> /\ IsStr(resp.result.rows[1].sys_id)
                           THEN resp.result.rows[1].sys_id
                      ELSE None
            IN /\ RowsRegistered(k)
               /\ IF Truthy(id)
                  THEN Get(ctx, StepKey(k)) = id
                  ELSE StepKey(k) \notin DOMAIN ctx

\* The response {"result": [{"sys_id": b}, {"sys_id": c}]} of step 1 has
\* registered both rows, and step1.sys_id = b.
C6_Witness ==
    /\ steps_out # <<>>
    /\ steps_out[1].ok
    /\ steps_out[1].response =
          Body(None, ListResult(<<[sys_id |-> Str(IdB)], [sys_id |-> Str(IdC)]>>), None)
    /\ Get(ctx, ResultKey(1, 0)) = Str(IdB)
    /\ Get(ctx, ResultKey(1, 1)) = Str(IdC)
    /\ Get(ctx, StepKey(1)) = Str(IdB)

\* C7: after a successful step I, stepI.sys_id holds the identifier chosen by
\* the precedence top-level sys_id, result object's sys_id, first row's sys_id.
C7_Precedence ==
    \A k \in DOMAIN steps_out :
        Produced(k) => Get(ctx, StepKey(k)) = Yielded(steps_out[k].response)

\* C8: every value of the Reference Context is a non-empty string.
C8_ContextValues ==
    \A key \in DOMAIN ctx : IsStr(ctx[key]) /\ ctx[key].v # ""

\* C9 as stated: once a key of the Reference Context has a value, no later
\* step of the run gives it another one.
C9_WriteOnce ==
    [][\A key \in DOMAIN ctx : key \in DOMAIN ctx' /\ ctx'[key] = ctx[key]]_vars

\* C9 amended: the keys of a step (stepN.sys_id, stepN.result[j].sys_id) are
\* never assigned again once step N is finished; the alias CAT_ITEM_SYS_ID is
\* not write-once: every later successful sc_cat_item step that yields an
\* identifier assigns it that identifier.
C9_StepKeysWriteOnce ==
    [][/\ \A key \in DOMAIN ctx \ {"CAT_ITEM_SYS_ID"} :
             key \in DOMAIN ctx' /\ ctx'[key] = ctx[key]
       /\ (/\ Len(steps_out') = Len(steps_out) + 1
           /\ steps_out'[Len(steps_out')].ok
           /\ steps_out'[Len(steps_out')].table = "sc_cat_item"
           /\ Truthy(Yielded(steps_out'[Len(steps_out')].response)))
          => Get(ctx', "CAT_ITEM_SYS_ID") = Yielded(steps_out'[Len(steps_out')].response)
      ]_vars

\* Two sc_cat_item steps succeeded with different identifiers: both step keys
\* are set, and the alias holds the second identifier.
C9_Witness ==
    /\ Len(steps_out) = 2
    /\ Produced(1) /\ Produced(2)
    /\ steps_out[1].table = "sc_cat_item"
    /\ steps_out[2].table = "sc_cat_item"
    /\ Yielded(steps_out[1].response) # Yielded(steps_out[2].response)
    /\ Get(ctx, StepKey(1)) = Yielded(steps_out[1].response)
    /\ Get(ctx, StepKey(2)) = Yielded(steps_out[2].response)
    /\ Get(ctx, "CAT_ITEM_SYS_ID") = Yielded(steps_out[2].response)

-----------------------------------------------------------------------------
(* Properties of validation and dispatch *)

MissingTable == Str("ValueError: Step missing 'table'.")

\* No client method was invoked and the cache was not accessed for step k.
NothingInvoked(k) ==
    /\ \A c \in DOMAIN calls : calls[c].i # k
    /\ \A c \in DOMAIN cacheLog : cacheLog[c].i # k

\* C11: a step with an empty collection and an operation other than note fails
\* with the missing-collection validation error and no remote call; a note
\* step is never rejected for lacking a collection.
C11_TableRequiredExceptNote ==
    \A k \in DOMAIN steps_out :
        StepOf(k).table = "" =>
            IF steps_out[k].operation # "note"
            THEN /\ ~steps_out[k].ok
                 /\ steps_out[k].error = MissingTable
                 /\ NothingInvoked(k)
            ELSE steps_out[k].error # MissingTable

\* C12: a query step whose resolved filter is missing or empty, and a step
\* whose aliased operation is not a supported one, end as a failed Step Result
\* with a validation error, no client method invoked and no cache access.
C12_RejectedBeforeDispatch ==
    \A k \in DOMAIN steps_out :
        (\/ steps_out[k].operation = "query" /\ ~Truthy(steps_out[k].query)
         \/ steps_out[k].operation \notin SupportedOps) =>
            /\ ~steps_out[k].ok
            /\ steps_out[k].error \in ValidationErrors
            /\ NothingInvoked(k)

\* In a run with a cache, a query step with an empty filter and a step with an
\* unsupported operation on a collection have both been rejected.
C12_Witness ==
    /\ cache_get /\ cache_set
    /\ Len(steps_out) = 2
    /\ steps_out[1].operation = "query"
    /\ StepOf(1).query = T(<<>>)
    /\ steps_out[1].error = Str("ValueError: Query requires query (sysparm_query).")
    /\ steps_out[2].operation = "note"
    /\ steps_out[2].table = "incident"
    /\ steps_out[2].error = Str("ValueError: Unsupported operation")
    /\ calls = <<>>
    /\ cacheLog = <<>>

\* The client method that matches an aliased operation name.
MethodFor(operation) ==
    CASE operation = "create" -> "table_create"
      [] operation = "update" -> "table_update"
      [] operation = "delete" -> "table_delete"
      [] operation = "get" -> "table_get"
      [] operation = "query" -> "table_query"
      [] operation = "change_update_set" -> "change_update_set"
      [] OTHER -> "none"

\* C13: every executed step invokes at most one client method, at most once
\* (a call that raised is not repeated), and the method is the one that
\* matches the step's aliased operation.
C13_OneMatchingCall ==
    /\ \A c, d \in DOMAIN calls : calls[c].i = calls[d].i => c = d
    /\ \A c \in DOMAIN calls :
        /\ calls[c].i \in DOMAIN raw_steps
        /\ calls[c].method = MethodFor(_op_alias(StepOf(calls[c].i).operation))
    /\ \A k \in DOMAIN steps_out :
        Cardinality({c \in DOMAIN calls : calls[c].i = k}) <= 1

\* The call of step 1, a query, raised; the run went on to step 2, a delete,
\* whose call returned: two calls in all, one per step.
C13_Witness ==
    /\ pc = "done"
    /\ Len(steps_out) = 2
    /\ Len(calls) = 2
    /\ calls[1].i = 1 /\ calls[1].method = "table_query" /\ calls[1].outcome = "raised"
    /\ calls[2].i = 2 /\ calls[2].method = "table_delete" /\ calls[2].outcome = "returned"

-----------------------------------------------------------------------------
(* The Result Cache: read and write steps on one record, a cache that may
   hold an entry of an earlier run of the session, entries that expire. *)

\* TTLCache.get, lines 24-27, and _evict_if_needed: an entry whose time has
\* passed, or that was evicted, is gone for every later lookup.
\* The key the executor passed to the callbacks for the store key `key` of
\* the running session, where it passed one; the store key otherwise.
CallbackKey(key) ==
    LET passed == {cacheLog[c].key : c \in {d \in DOMAIN cacheLog : cacheLog[d].op \in {"get", "set"}}}
    IN IF \E ck \in passed : SessionKey(sid, ck) = key
       THEN CHOOSE ck \in passed : SessionKey(sid, ck) = key
       ELSE key

Expire ==
    /\ pc \in {"loop", "await"}
    /\ \E key \in DOMAIN cache :
        /\ cache' = [k \in DOMAIN cache \ {key} |-> cache[k]]
        /\ cacheLog' = Append(cacheLog, [i |-> i, op |-> "expire", key |-> CallbackKey(key),
                                          hit |-> FALSE])
    /\ UNCHANGED <<ttl_vars, session_vars, other_run, plan, stop_on_error, cache_get, cache_set, on_step, pc, i, ctx,
                   steps_out, report, pending, calls, observed>>

Lit1(s) == T(<<Lit(s)>>)

CacheSteps ==
    {RawStep("get", "incident", Lit1(IdC), TNone, EmptyDict, p) :
        p \in {EmptyDict, [sysparm_fields |-> Lit1("number")]}}
    \cup {RawStep("query", "incident", TNone, Lit1("active=true"), EmptyDict, EmptyDict),
          RawStep("create", "incident", TNone, TNone, [state |-> Lit1("2")], EmptyDict),
          RawStep("update", "incident", Lit1(IdC), TNone, [state |-> Lit1("2")], EmptyDict),
          RawStep("delete", "incident", Lit1(IdC), TNone, EmptyDict, EmptyDict),
          RawStep("change_update_set", "incident", Lit1(IdC), TNone, EmptyDict, EmptyDict)}

\* Responses: two records, an embedded error, JSON null.
CacheBodies ==
    {Body(None, DictResult(Str(IdA)), None),
     Body(None, DictResult(Str(IdB)), None),
     Body(None, NoResult, Str("Operation failed")),
     NullBody}

\* The cache at the start of a run: empty, or holding the entry an earlier
\* run of the session stored for the get of the record.
StoredBefore ==
    {EmptyDict,
     [k \in {SessionKey("s1", _cache_key("get", "incident", Str(IdC), None, <<>>))} |->
        Body(None, DictResult(Str(IdA)), None)]}

InitCache ==
    /\ plan \in Plans(CacheSteps)
    /\ stop_on_error \in BOOLEAN
    /\ cache_get \in BOOLEAN
    /\ cache_set \in BOOLEAN
    /\ on_step = FALSE
    /\ pc = "init"
    /\ i = 1
    /\ ctx = EmptyDict
    /\ steps_out = <<>>
    /\ report = [ok |-> FALSE, steps |-> <<>>]
    /\ pending = NoPending
    /\ calls = <<>>
    /\ cache \in StoredBefore
    /\ cacheLog = <<>>
    /\ observed = <<>>
    /\ other_run = NoOther
    /\ NoTTL
    /\ OneSession

NextCache == Begin \/ Dispatch \/ Respond(CacheBodies) \/ Raise \/ Expire

SpecCache == InitCache /\ [][NextCache]_vars

WriteOps == {"create", "update", "delete", "change_update_set"}

\* The invocations of cache_get and cache_set made for step k.
CacheAccessesOf(k) ==
    {c \in DOMAIN cacheLog : cacheLog[c].i = k /\ cacheLog[c].op \in {"get", "set"}}

\* The cache_get invocation of step k in the log of cache accesses.
LookupOf(k) ==
    CHOOSE c \in DOMAIN cacheLog : cacheLog[c].i = k /\ cacheLog[c].op = "get"

CallsOf(S) == {c \in DOMAIN calls : calls[c].i \in S}

\* Steps j < k are get steps that resolve to the same collection, recordId
\* and params: they looked up the same key.
SameGet(j, k) ==
    /\ j < k
    /\ steps_out[j].operation = "get"
    /\ steps_out[k].operation = "get"
    /\ cacheLog[LookupOf(j)].key = cacheLog[LookupOf(k)].key

\* C14 as stated: in a run with a cache, two get steps with the same
\* collection, recordId and params cause exactly one remote read: the second
\* is served from the cache, with the body of the first.
C14_SecondFromCache ==
    (cache_get /\ cache_set) =>
        \A j, k \in DOMAIN steps_out :
            SameGet(j, k) =>
                /\ Cardinality(CallsOf({j, k})) = 1
                /\ CallsOf({k}) = {}
                /\ cacheLog[LookupOf(k)].hit
                /\ steps_out[k].response = steps_out[j].response

\* C14 amended: the second of two such steps (no step with the same key in
\* between) is served from the cache, with the body of the first and no remote
\* read of its own, exactly when the first obtained a non-null body (from the
\* cache or from a remote read that returned) and the entry has not expired
\* since; the two steps then cause one remote read if the first missed the
\* cache and none if it was itself served from it.  Otherwise (the first read
\* raised or returned null, or the entry expired) the second step misses and
\* makes its own remote read.
C14_SecondFromCacheIfStored ==
    (cache_get /\ cache_set) =>
        \A j, k \in DOMAIN steps_out :
            (SameGet(j, k) /\ \A m \in (j + 1)..(k - 1) : ~SameGet(m, k)) =>
                LET lj == LookupOf(j)
                    lk == LookupOf(k)
                    stored == /\ steps_out[j].response # NullBody
                              /\ \/ cacheLog[lj].hit
                                 \/ \E c \in CallsOf({j}) : calls[c].outcome = "returned"
                    last == CHOOSE c \in CacheAccessesOf(j) :
                                \A d \in CacheAccessesOf(j) : d <= c
                    expired == \E c \in (last + 1)..(lk - 1) :
                                  /\ cacheLog[c].op = "expire"
                                  /\ cacheLog[c].key = cacheLog[lk].key
                IN IF stored /\ ~expired
                   THEN /\ cacheLog[lk].hit
                        /\ CallsOf({k}) = {}
                        /\ steps_out[k].response = steps_out[j].response
                        /\ Cardinality(CallsOf({j, k})) = (IF cacheLog[lj].hit THEN 0 ELSE 1)
                   ELSE /\ ~cacheLog[lk].hit
                        /\ Cardinality(CallsOf({k})) = 1

\* Two identical get steps against an empty cache: the first read the record
\* remotely, the second was served its body from the cache.
C14_Witness ==
    /\ cache_get /\ cache_set
    /\ Len(steps_out) = 2
    /\ SameGet(1, 2)
    /\ ~cacheLog[LookupOf(1)].hit
    /\ cacheLog[LookupOf(2)].hit
    /\ Len(calls) = 1
    /\ calls[1].outcome = "returned"
    /\ steps_out[1].response = Body(None, DictResult(Str(IdB)), None)
    /\ steps_out[2].response = steps_out[1].response

\* C15: cache_get and cache_set are only ever called for get and query steps;
\* a create, update, delete or change_update_set step calls neither and goes
\* to the remote client.
C15_CacheOnlyForReads ==
    /\ \A c \in DOMAIN cacheLog :
        cacheLog[c].op \in {"get", "set"} =>
            /\ _op_alias(StepOf(cacheLog[c].i).operation) \in {"get", "query"}
            /\ cacheLog[c].args.op = _op_alias(StepOf(cacheLog[c].i).operation)
    /\ \A k \in DOMAIN steps_out :
        (steps_out[k].operation \in WriteOps /\ steps_out[k].error \notin ValidationErrors) =>
            /\ CacheAccessesOf(k) = {}
            /\ Cardinality(CallsOf({k})) = 1
            /\ \A c \in CallsOf({k}) : calls[c].outcome \in {"returned", "raised"}

\* In a run with a cache that holds an entry for the record, an update and a
\* delete of that record were both sent to the remote side, and the cache was
\* not accessed.
C15_Witness ==
    /\ cache_get /\ cache_set
    /\ cache # EmptyDict
    /\ Len(steps_out) = 2
    /\ steps_out[1].operation = "update"
    /\ steps_out[2].operation = "delete"
    /\ Len(calls) = 2
    /\ calls[1].outcome = "returned"
    /\ calls[2].outcome = "returned"
    /\ CacheAccessesOf(1) \cup CacheAccessesOf(2) = {}

\* params.sysparm_limit of plan step k as the step gives it (None when the
\* key is absent or holds None).
GivenLimit(k) ==
    Get(PlainDict(SubstituteDict(StepOf(k).params, EmptyDict)), "sysparm_limit")

\* C16: the row limit carried by the request of a query step is the integer
\* value of params.sysparm_limit when that is present and parseable as an
\* integer, and 25 otherwise.
C16_QueryLimit ==
    \A c \in DOMAIN calls :
        calls[c].method = "table_query" =>
            LET given == GivenLimit(calls[c].i)
                carried == Get(calls[c].params, "sysparm_limit")
            IN PyInt(carried) = (IF given # None /\ PyInt(given) # ""
                                 THEN PyInt(given)
                                 ELSE ToString(DefaultLimit))

-----------------------------------------------------------------------------
(* Step input shapes: plans that hold malformed steps among well-formed ones. *)

ShapeSteps ==
    {Shaped(s) : s \in {"none", "int", "str", "op_int", "table_int"}}
    \cup {RawStep("create", "incident", TNone, TNone, EmptyDict, EmptyDict),
          RawStep("get", "incident", Lit1(IdC), TNone, EmptyDict, EmptyDict),
          RawStep("query", "incident", TNone, Lit1("active=true"), EmptyDict, EmptyDict)}

InitShape == InitWith(Plans(ShapeSteps), {FALSE})

NextShape == Begin \/ Dispatch \/ Respond(Bodies) \/ Raise

SpecShape == InitShape /\ [][NextShape]_vars

\* Plan step k is not a mapping of strings.
MalformedStep(k) == "shape" \in DOMAIN raw_steps[k]

\* C17: no exception leaves execute_steps; a malformed step degrades to an
\* empty operation and collection and is reported as a failed Step Result
\* with a validation error, and the report is returned.
C17_NeverRaises ==
    /\ pc # "raised"
    /\ \A k \in DOMAIN steps_out :
        MalformedStep(k) =>
            /\ steps_out[k].operation = ""
            /\ steps_out[k].table = ""
            /\ ~steps_out[k].ok
            /\ steps_out[k].error \in ValidationErrors
    /\ pc = "done" => report.steps = steps_out

-----------------------------------------------------------------------------
(* Properties of failure reporting *)

RemoteException == Str("HTTPError: request failed")

\* The client call of step k raised after the request was sent.
CallRaised(k) == \E c \in CallsOf({k}) : calls[c].outcome = "raised"

\* C18: in every Step Result the error field is present iff ok is false, and
\* then it is a non-empty string: the text of the validation error, of the
\* remote exception, or of the embedded error of the response.
C18_ErrorIffFailed ==
    \A k \in DOMAIN steps_out :
        LET s == steps_out[k] IN
        /\ (s.error # None) <=> ~s.ok
        /\ ~s.ok =>
            /\ IsStr(s.error)
            /\ s.error.v # ""
            /\ IF CallRaised(k) THEN s.error = RemoteException
               ELSE IF HasError(s.response)
                    THEN s.error = Str("ServiceNow error: " \o PyStr(s.response.error))
               ELSE s.error \in ValidationErrors

\* Step 1 failed validation and step 2 came back with an embedded error: both
\* results carry ok = false and an error text.
C18_Witness ==
    /\ Len(steps_out) = 2
    /\ ~steps_out[1].ok
    /\ steps_out[1].error \in ValidationErrors
    /\ ~steps_out[2].ok
    /\ HasError(steps_out[2].response)
    /\ steps_out[2].error = Str("ServiceNow error: Operation failed")

\* The body is a structured object with an error indicator.
Embedded(body) == body.kind = "dict" /\ Truthy(body.error)

\* C19: a step whose body (from the remote call or from the cache) carries an
\* error indicator is marked failed with the embedded error message; it
\* assigns nothing to the Reference Context, and under stop_on_error the run
\* halts with it, as after a remote exception.
C19_EmbeddedErrorFails ==
    [][(/\ Len(steps_out') = Len(steps_out) + 1
        /\ Embedded(steps_out'[Len(steps_out')].response)) =>
            LET s == steps_out'[Len(steps_out')] IN
            /\ ~s.ok
            /\ s.error = Str("ServiceNow error: " \o PyStr(s.response.error))
            /\ ctx' = ctx
            /\ stop_on_error =>
                /\ pc' = "done"
                /\ report'.steps = steps_out'
                /\ ~report'.ok
      ]_vars

\* The first of two steps came back with an embedded error and an identifier
\* in its body: the run halted, and the context is empty.
C19_Witness ==
    /\ stop_on_error
    /\ pc = "done"
    /\ Len(raw_steps) = 2
    /\ Len(report.steps) = 1
    /\ Len(calls) = 1
    /\ calls[1].outcome = "returned"
    /\ report.steps[1].response = Body(None, DictResult(Str(IdB)), Str("Operation failed"))
    /\ report.steps[1].error = Str("ServiceNow error: Operation failed")
    /\ ctx = EmptyDict

-----------------------------------------------------------------------------
(* Properties of unresolved references *)

\* The string x holds a token, and none of its tokens had a context entry
\* when step k was resolved: the token names step k or a later step, or its
\* key has never been assigned.
Unresolvable(x, k) ==
    /\ x.t = "str"
    /\ \E p \in DOMAIN x.v : x.v[p].k # "lit"
    /\ \A p \in DOMAIN x.v :
        \/ x.v[p].k = "lit"
        \/ x.v[p].k \in {"step", "result"} /\ x.v[p].n >= k
        \/ KeyOf(x.v[p]) \notin DOMAIN ctx

\* x as written in the plan, tokens included.
Verbatim(x) == Str(Text(x.v))

\* C20: a token without a context entry is left in place: the step is still
\* validated and dispatched, and its request carries the literal token text.
\* With the context {"step1.sys_id": "abc123"}, "$step1.sys_id" becomes
\* "abc123" and "$step2.sys_id" stays as it is.
C20_UnresolvedLeftVerbatim ==
    /\ LET c == [key \in {"step1.sys_id"} |-> Str("abc123")] IN
        /\ Plain(_substitute(T(<<StepRef(1)>>), c)) = Str("abc123")
        /\ Plain(_substitute(T(<<StepRef(2)>>), c)) = Str("$step2.sys_id")
    /\ \A c \in DOMAIN calls :
        LET k == calls[c].i
            st == StepOf(k)
            m == calls[c].method
        IN /\ (m \in {"table_update", "table_delete", "table_get", "change_update_set"}
               /\ Unresolvable(st.sys_id, k))
                => calls[c].sys_id = Verbatim(st.sys_id)
           /\ (m = "table_query" /\ Unresolvable(st.query, k))
                => calls[c].query = Verbatim(st.query)
           /\ \A f \in DOMAIN st.fields :
                (m \in {"table_create", "table_update"} /\ Unresolvable(st.fields[f], k))
                => calls[c].fields[f] = Verbatim(st.fields[f])
           /\ \A f \in DOMAIN st.params :
                (m \in {"table_get", "table_query"} /\ Unresolvable(st.params[f], k))
                => calls[c].params[f] = Verbatim(st.params[f])
    /\ \A k \in DOMAIN steps_out :
        LET st == StepOf(k) IN
        /\ Unresolvable(st.sys_id, k) => steps_out[k].error \notin
              {Str("ValueError: Update requires sys_id."),
               Str("ValueError: Delete requires sys_id."),
               Str("ValueError: Get requires sys_id.")}
        /\ Unresolvable(st.query, k) => steps_out[k].error #
              Str("ValueError: Query requires query (sysparm_query).")

\* Step 1 failed, so step1.sys_id was never set; step 2, an update of
\* "$step1.sys_id", was still sent, with the token text as its recordId.
C20_Witness ==
    /\ Len(steps_out) = 2
    /\ ~steps_out[1].ok
    /\ StepOf(2).sys_id = T(<<StepRef(1)>>)
    /\ Len(calls) >= 1
    /\ calls[Len(calls)].i = 2
    /\ calls[Len(calls)].method = "table_update"
    /\ calls[Len(calls)].sys_id = Str("$step1.sys_id")
    /\ calls[Len(calls)].outcome = "returned"

-----------------------------------------------------------------------------
(* The catalog-item alias: plans of up to three steps that create catalog
   items and other records and refer to the alias. *)

MaxAliasSteps == 3

AliasToken == T(<<TokenRef("CAT_ITEM_SYS_ID")>>)

AliasSteps ==
    {RawStep("create", "sc_cat_item", TNone, TNone, EmptyDict, EmptyDict),
     RawStep("create", "incident", TNone, TNone, EmptyDict, EmptyDict),
     RawStep("update", "incident", AliasToken, TNone, [cat_item |-> AliasToken], EmptyDict)}

\* Responses: an identifier at the top level, one in the result object, none,
\* and an embedded error beside an identifier.
AliasBodies ==
    {Body(Str(IdA), NoResult, None),
     Body(None, DictResult(Str(IdB)), None),
     Body(None, NoResult, None),
     Body(Str(IdC), NoResult, Str("Operation failed"))}

InitAlias ==
    InitWith({Plan("object", ss) : ss \in SeqsUpTo(AliasSteps, MaxAliasSteps)}, {FALSE})

NextAlias == Begin \/ Dispatch \/ Respond(AliasBodies) \/ Raise

SpecAlias == InitAlias /\ [][NextAlias]_vars

Alias == "CAT_ITEM_SYS_ID"

\* Step n succeeded on sc_cat_item and its response yielded an identifier.
CatItemProduced(n) == Produced(n) /\ steps_out[n].table = "sc_cat_item"

\* The transition finishes a step / invokes a client method.
StepFinishes == Len(steps_out') = Len(steps_out) + 1
CallStarts == Len(calls') = Len(calls) + 1

\* What the transition does to the alias when it finishes a step: a
\* successful sc_cat_item step that yields an identifier assigns it, any other
\* step leaves the alias as it is (unset, or with its value).
AliasAssignedByCatItemOnly ==
    StepFinishes =>
        LET s == steps_out'[Len(steps_out')] IN
        IF s.ok /\ s.table = "sc_cat_item" /\ Truthy(Yielded(s.response))
        THEN Get(ctx', Alias) = Yielded(s.response)
        ELSE /\ (Alias \in DOMAIN ctx') <=> (Alias \in DOMAIN ctx)
             /\ Get(ctx', Alias) = Get(ctx, Alias)

\* C21 as stated: the alias is assigned by successful sc_cat_item steps that
\* yield an identifier and by no other step, and a <CAT_ITEM_SYS_ID> token of
\* any later step resolves to the identifier of such a step.
C21_AliasOfEveryCatItem ==
    [][/\ AliasAssignedByCatItemOnly
       /\ (CallStarts /\ StepOf(calls'[Len(calls')].i).sys_id = AliasToken) =>
            \A n \in 1..(calls'[Len(calls')].i - 1) :
                CatItemProduced(n) =>
                    /\ calls'[Len(calls')].sys_id = Yielded(steps_out[n].response)
                    /\ calls'[Len(calls')].fields["cat_item"] = Yielded(steps_out[n].response)
      ]_vars

\* C21 amended: the token resolves to the identifier of the latest such step
\* before it, and stays as written when there is none.
C21_AliasOfLatestCatItem ==
    [][/\ AliasAssignedByCatItemOnly
       /\ (CallStarts /\ StepOf(calls'[Len(calls')].i).sys_id = AliasToken) =>
            LET c == calls'[Len(calls')]
                before == {n \in 1..(c.i - 1) : CatItemProduced(n)}
                value == IF before = {} THEN Str("<CAT_ITEM_SYS_ID>")
                         ELSE Yielded(steps_out[CHOOSE n \in before :
                                                  \A m \in before : m <= n].response)
            IN /\ c.sys_id = value
               /\ c.fields["cat_item"] = value
      ]_vars

\* A catalog item was created with identifier a, an incident with identifier
\* b; the update that follows was sent with a for <CAT_ITEM_SYS_ID>.
C21_Witness ==
    /\ Len(steps_out) = 2
    /\ CatItemProduced(1)
    /\ Yielded(steps_out[1].response) = Str(IdA)
    /\ steps_out[2].table = "incident"
    /\ Produced(2)
    /\ Yielded(steps_out[2].response) = Str(IdB)
    /\ Get(ctx, Alias) = Str(IdA)
    /\ Len(calls) = 3
    /\ StepOf(3).sys_id = AliasToken
    /\ calls[3].sys_id = Str(IdA)
    /\ calls[3].fields["cat_item"] = Str(IdA)

-----------------------------------------------------------------------------
(* Frame: the caller's plan *)

-----------------------------------------------------------------------------
(* The observer *)

\* The run stopped where the loop stops: after the last step, or after a
\* failed step under stop_on_error.
StoppedAsTheLoopDoes ==
    \/ Len(steps_out) = Len(raw_steps)
    \/ stop_on_error /\ steps_out # <<>> /\ ~steps_out[Len(steps_out)].ok

\* C23: the observer is invoked once per Step Result, with the result already
\* in the report and before the next step starts; what it raises is swallowed:
\* the run goes on and stops as it would otherwise, and each ok, and the
\* overall ok, are those of the steps.
C23_ObserverOncePerResult ==
    /\ ~on_step => observed = <<>>
    /\ on_step =>
        /\ Len(observed) = Len(steps_out)
        /\ \A k \in DOMAIN observed : observed[k].i = k /\ observed[k].len = k
        /\ \A c \in DOMAIN calls : calls[c].i <= Len(observed) + 1
        /\ \A c \in DOMAIN cacheLog : cacheLog[c].i <= Len(observed) + 1
        /\ pc \in {"loop", "await"} => i = Len(observed) + 1
    /\ pc # "raised"
    /\ pc = "done" =>
        /\ StoppedAsTheLoopDoes
        /\ report.steps = steps_out
        /\ report.ok <=> (steps_out # <<>> /\ \A k \in DOMAIN steps_out : steps_out[k].ok)
    /\ \A k \in DOMAIN steps_out :
        steps_out[k].ok <=> (/\ ~CallRaised(k)
                             /\ ~Embedded(steps_out[k].response)
                             /\ steps_out[k].error \notin ValidationErrors)

\* The observer raised on the result of step 1; step 2 was executed, both
\* steps are ok and so is the report.
C23_Witness ==
    /\ on_step
    /\ pc = "done"
    /\ Len(observed) = 2
    /\ observed[1].raised
    /\ ~observed[2].raised
    /\ Len(calls) = 2
    /\ report.ok

-----------------------------------------------------------------------------
(* The display projection: query steps with and without requested columns,
   results of up to MaxDisplayRows rows. *)

MaxDisplayRows == 11

FieldsParams ==
    {EmptyDict} \cup
    {[sysparm_fields |-> Lit1(s)] : s \in {"name,active", " name , ,active", "name,name", ","}}

DisplaySteps ==
    {RawStep("query", "incident", TNone, Lit1("active=true"), EmptyDict, p) :
        p \in FieldsParams}
    \cup {RawStep("get", "incident", Lit1(IdC), TNone, EmptyDict,
                  [sysparm_fields |-> Lit1("name,active")]),
          RawStep("create", "incident", TNone, TNone, EmptyDict, EmptyDict)}

\* Rows: an object with the columns name, active and extra, one with name
\* alone and no sys_id, and a row that is not an object.
RowFull == [sys_id |-> Str(IdB), name |-> Str("x"), active |-> Str("true"), extra |-> Str("y")]
RowName == [sys_id |-> None, name |-> Str("z")]
RowScalar == [scalar |-> Str("junk")]

DisplayBodies ==
    {Body(None, ListResult([p \in 1..m |-> RowFull]), None) :
        m \in {0, 1, DisplayLimit, MaxDisplayRows}}
    \cup {Body(None, ListResult(<<RowFull, RowName>>), None),
          Body(None, ListResult(<<RowFull, RowScalar, RowName>>), None),
          Body(None, DictResult(Str(IdB)), None),
          Body(None, ListResult(<<RowFull>>), Str("Operation failed"))}

InitDisplay == InitWith(Plans(DisplaySteps), {FALSE})

NextDisplay == Begin \/ Dispatch \/ Respond(DisplayBodies) \/ Raise

SpecDisplay == InitDisplay /\ [][NextDisplay]_vars

\* The columns step k asks for in params.sysparm_fields, <<>> when it asks
\* for none.
Requested(k) ==
    LET v == Get(steps_out[k].params, "sysparm_fields") IN
    IF Truthy(v) THEN ColumnsOf(PyStr(v)) ELSE <<>>

\* The rows of the response of step k, and those that are objects.
ReturnedRows(k) == steps_out[k].response.result.rows
ObjectRows(k) == {p \in DOMAIN ReturnedRows(k) : IsDictRow(ReturnedRows(k)[p])}

Shown(k) == steps_out[k].displayRows

\* C24 as stated: the display projection never holds more rows than the
\* display limit, with full rows and with requested columns alike.
C24_DisplayCapped ==
    \A k \in DOMAIN steps_out :
        Shown(k).present => Len(Shown(k).rows) <= DisplayLimit

\* C24 amended: the display limit holds for the projection of full rows; the
\* projection on requested columns has one row for each returned row that is
\* an object, however many there are.
C24_FullRowsCapped ==
    \A k \in DOMAIN steps_out :
        Shown(k).present =>
            IF Requested(k) = <<>>
            THEN /\ Len(Shown(k).rows) <= DisplayLimit
                 /\ Len(Shown(k).rows) <= Len(ReturnedRows(k))
            ELSE Len(Shown(k).rows) = Cardinality(ObjectRows(k))

\* A query for the columns name and active fetched more rows than the display
\* limit, and its projection holds them all.
C24_Witness ==
    /\ steps_out # <<>>
    /\ Shown(1).present
    /\ Requested(1) = <<"name", "active">>
    /\ Len(ReturnedRows(1)) > DisplayLimit
    /\ Len(Shown(1).rows) = Len(ReturnedRows(1))


\* The columns of Requested(k), as a set.
RequestedSet(k) == {Requested(k)[p] : p \in DOMAIN Requested(k)}

\* Step k is a successful query whose response holds a list of rows.
QueryWithRows(k) ==
    /\ steps_out[k].ok
    /\ steps_out[k].operation = "query"
    /\ steps_out[k].response.kind = "dict"
    /\ steps_out[k].response.result.kind = "list"

\* The position among the returned rows of the p-th row that is an object.
ObjectRowAt(k, p) ==
    CHOOSE q \in ObjectRows(k) : Cardinality({x \in ObjectRows(k) : x <= q}) = p

\* Row p of the projection holds exactly the requested columns, each with
\* the value of the returned row at position q, None when the row lacks it.
ShowsColumnsOf(k, p, q) ==
    /\ DOMAIN Shown(k).rows[p] = RequestedSet(k)
    /\ \A c \in RequestedSet(k) :
        Shown(k).rows[p][c] = Get(ReturnedRows(k)[q], c)

\* Without requested columns the projection is the first rows as returned,
\* up to the display limit.
ShowsFirstRows(k) ==
    /\ Len(Shown(k).rows) <= DisplayLimit
    /\ Len(Shown(k).rows) <= Len(ReturnedRows(k))
    /\ Len(Shown(k).rows) = DisplayLimit \/ Len(Shown(k).rows) = Len(ReturnedRows(k))
    /\ \A p \in DOMAIN Shown(k).rows : Shown(k).rows[p] = ReturnedRows(k)[p]

\* A failed step and a step that is no query have no projection.
NoProjectionUnlessQueryOk ==
    \A k \in DOMAIN steps_out :
        (~steps_out[k].ok \/ steps_out[k].operation # "query") => ~Shown(k).present

\* C25 as stated: with requested columns the projection has one row per
\* returned row, each holding exactly the requested columns (None for a
\* column the row lacks); without them it is at most the first 10 raw rows;
\* a failed or non-query step has none.
C25_RowPerReturnedRow ==
    /\ NoProjectionUnlessQueryOk
    /\ \A k \in DOMAIN steps_out :
        QueryWithRows(k) =>
            /\ Shown(k).present
            /\ IF Requested(k) = <<>>
               THEN ShowsFirstRows(k)
               ELSE /\ Len(Shown(k).rows) = Len(ReturnedRows(k))
                    /\ \A p \in DOMAIN Shown(k).rows : ShowsColumnsOf(k, p, p)

\* C25 amended: with requested columns the projection has one row per
\* returned row that is an object, in the order returned; rows that are not
\* objects are left out. The rest as stated.
C25_RowPerObjectRow ==
    /\ NoProjectionUnlessQueryOk
    /\ \A k \in DOMAIN steps_out :
        QueryWithRows(k) =>
            /\ Shown(k).present
            /\ IF Requested(k) = <<>>
               THEN ShowsFirstRows(k)
               ELSE /\ Len(Shown(k).rows) = Cardinality(ObjectRows(k))
                    /\ \A p \in DOMAIN Shown(k).rows :
                        ShowsColumnsOf(k, p, ObjectRowAt(k, p))

\* A query for name and active returned an object without the column active
\* after a row that is no object: the projection leaves the latter out and
\* shows active as None.
C25_Witness ==
    /\ steps_out # <<>>
    /\ QueryWithRows(1)
    /\ Requested(1) = <<"name", "active">>
    /\ ReturnedRows(1) = <<RowFull, RowScalar, RowName>>
    /\ Shown(1).rows = <<[name |-> Str("x"), active |-> Str("true")],
                         [name |-> Str("z"), active |-> None]>>

-----------------------------------------------------------------------------
(* Cache keys: lookups that differ in operation, filter or params, and
   lookups whose recordId is written as a literal and as a reference. *)

MaxKeySteps == 3

KeySteps ==
    {RawStep("create", "incident", TNone, TNone, EmptyDict, EmptyDict),
     RawStep("get", "incident", Lit1(IdA), TNone, EmptyDict, EmptyDict),
     RawStep("get", "incident", T(<<StepRef(1)>>), TNone, EmptyDict, EmptyDict),
     RawStep("query", "incident", TNone, Lit1("active=true"), EmptyDict, EmptyDict),
     RawStep("query", "incident", TNone, Lit1("active=false"), EmptyDict, EmptyDict),
     RawStep("query", "incident", TNone, Lit1("active=true"), EmptyDict,
             [sysparm_fields |-> Lit1("number"), sysparm_limit |-> Lit1("10")])}

KeyBodies ==
    {Body(None, DictResult(Str(IdA)), None),
     Body(None, DictResult(Str(IdB)), None),
     Body(None, ListResult(<<[sys_id |-> Str(IdC)]>>), None)}

\* A run with a cache and without an observer, as api_execute_stream starts it.
InitKey ==
    /\ plan \in {Plan("object", ss) : ss \in SeqsUpTo(KeySteps, MaxKeySteps)}
    /\ stop_on_error = TRUE
    /\ cache_get = TRUE
    /\ cache_set = TRUE
    /\ on_step = FALSE
    /\ pc = "init"
    /\ i = 1
    /\ ctx = EmptyDict
    /\ steps_out = <<>>
    /\ report = [ok |-> FALSE, steps |-> <<>>]
    /\ pending = NoPending
    /\ calls = <<>>
    /\ cache = EmptyDict
    /\ cacheLog = <<>>
    /\ observed = <<>>
    /\ other_run = NoOther
    /\ NoTTL
    /\ OneSession

NextKey == Begin \/ Dispatch \/ Respond(KeyBodies) \/ Raise

SpecKey == InitKey /\ [][NextKey]_vars

\* The calls of cache_get and cache_set.
KeyedAccesses == {c \in DOMAIN cacheLog : cacheLog[c].op \in {"get", "set"}}

\* The key of access c is that of its arguments, in whichever order the
\* entries of params were written.
KeyOfArguments(c) ==
    LET a == cacheLog[c].args IN
    \A ord \in Orders(a.params) :
        cacheLog[c].key = _cache_key(a.op, a.table, a.sys_id, a.query, Entries(a.params, ord))

\* A transition that calls cache_get does so with the values of the step's
\* inputs after substitution in the Reference Context of that moment.
LookupResolved ==
    (Len(cacheLog') = Len(cacheLog) + 1 /\ cacheLog'[Len(cacheLog')].op = "get") =>
        LET e == cacheLog'[Len(cacheLog')]
            st == StepOf(i)
        IN /\ e.i = i
           /\ e.args.op = _op_alias(st.operation)
           /\ e.args.table = st.table
           /\ e.args.op = "get" =>
                /\ e.args.sys_id = Str(PyStr(Plain(_substitute(st.sys_id, ctx))))
                /\ e.args.query = None
           /\ e.args.op = "query" =>
                /\ e.args.query = Str(PyStr(Plain(_substitute(st.query, ctx))))
                /\ e.args.sys_id = None
           /\ e.args.params = PlainDict(SubstituteDict(st.params, ctx))

\* A step stores under the arguments it looked up.
StoredAsLookedUp(c) ==
    cacheLog[c].op = "set" =>
        \A g \in KeyedAccesses :
            (cacheLog[g].op = "get" /\ cacheLog[g].i = cacheLog[c].i) =>
                cacheLog[g].args = cacheLog[c].args /\ cacheLog[g].key = cacheLog[c].key

\* The latest cache_set before access h with the key of h.
StoredFor(h) ==
    {s \in KeyedAccesses :
        /\ s < h
        /\ cacheLog[s].op = "set"
        /\ cacheLog[s].key = cacheLog[h].key
        /\ \A t \in KeyedAccesses :
            (t < h /\ cacheLog[t].op = "set" /\ cacheLog[t].key = cacheLog[h].key) => t <= s}

\* C26: two cache accesses have the same key only if they have the same
\* resolved operation, collection, recordId, filter and params; the key does
\* not depend on the order of the params entries; and the body a hit returns
\* is the one stored by a step with the same resolved values.
SameKeySameValues ==
    /\ \A c \in KeyedAccesses : KeyOfArguments(c) /\ StoredAsLookedUp(c)
    /\ \A c, d \in KeyedAccesses :
        cacheLog[c].key = cacheLog[d].key <=> cacheLog[c].args = cacheLog[d].args
    /\ \A h \in KeyedAccesses :
        (cacheLog[h].hit /\ cacheLog[h].i \in DOMAIN steps_out) =>
            /\ StoredFor(h) # {}
            /\ \A s \in StoredFor(h) :
                /\ cacheLog[s].args = cacheLog[h].args
                /\ steps_out[cacheLog[h].i].response = steps_out[cacheLog[s].i].response
                /\ CallsOf({cacheLog[h].i}) = {}

C26_KeyOfResolvedValues == [][LookupResolved /\ SameKeySameValues']_vars

\* A get by reference hits the entry of the get that named the same record
\* literally; two queries that differ in their params alone have different
\* keys.
ReferenceHitsLiteral ==
    /\ Len(steps_out) = 3
    /\ steps_out[2].operation = "get" /\ steps_out[3].operation = "get"
    /\ \E p \in DOMAIN raw_steps[3].sys_id.v : raw_steps[3].sys_id.v[p].k = "step"
    /\ \E h \in KeyedAccesses : cacheLog[h].i = 3 /\ cacheLog[h].hit

C26_Witness ==
    /\ Len(steps_out) = 3
    /\ \E h \in KeyedAccesses : cacheLog[h].i = 3 /\ cacheLog[h].hit
    /\ \E c, d \in KeyedAccesses :
        /\ cacheLog[c].i = 1 /\ cacheLog[d].i = 2
        /\ cacheLog[c].args.op = "query" /\ cacheLog[d].args.op = "query"
        /\ cacheLog[c].args.query = cacheLog[d].args.query
        /\ Cardinality(DOMAIN cacheLog[d].args.params) = 2
        /\ cacheLog[c].args.params = EmptyDict
        /\ cacheLog[c].key # cacheLog[d].key

-----------------------------------------------------------------------------
(* Operation names: the canonical names, their aliases, names in another
   case or with blanks around them, a name that is no operation; each given
   as operation, as action or as op, with the values as fields or as data. *)

MaxOpSteps == 1

OpNames ==
    {"create", "update", "delete", "get", "query", "change_update_set",
     "read", "fetch", "list", "search", "insert",
     "Update", "GET", " query ", "frobnicate"}

State2 == [state |-> Lit1("2")]

\* A step with all the inputs an operation can need, its name under the key
\* `key` and its values under fields or data.
NamedStep(key, name, as_data) ==
    [operation |-> IF key = "operation" THEN name ELSE "",
     action |-> IF key = "action" THEN name ELSE "",
     op |-> IF key = "op" THEN name ELSE "",
     table |-> "incident", query |-> Lit1("active=true"),
     sys_id |-> Lit1(IdC), sysId |-> TNone,
     fields |-> IF as_data THEN EmptyDict ELSE State2,
     data |-> IF as_data THEN State2 ELSE EmptyDict,
     params |-> EmptyDict]

\* Steps that hold both a canonical input and an alternate one.
BothGiven ==
    {[NamedStep("operation", "get", FALSE) EXCEPT !.action = "delete"],
     [NamedStep("action", "update", FALSE) EXCEPT !.op = "delete"],
     [NamedStep("operation", "update", FALSE) EXCEPT !.data = [state |-> Lit1("3")]]}

OpSteps ==
    {NamedStep(key, name, as_data) :
        key \in {"operation", "action", "op"}, name \in OpNames, as_data \in BOOLEAN}
    \cup BothGiven

OpBodies ==
    {Body(None, DictResult(Str(IdA)), None),
     Body(None, NoResult, Str("Operation failed"))}

InitOps ==
    InitWith({Plan("dict", ss) : ss \in SeqsUpTo(OpSteps, MaxOpSteps)}, {FALSE})

NextOps == Begin \/ Dispatch \/ Respond(OpBodies) \/ Raise

SpecOps == InitOps /\ [][NextOps]_vars

\* The name step k was given: operation, else action, else op.
GivenName(k) == Or(raw_steps[k].operation, Or(raw_steps[k].action, raw_steps[k].op))

\* The values step k was given: fields, else data.
GivenFields(k) == OrD(raw_steps[k].fields, raw_steps[k].data)

\* The operation a name stands for according to the alias table.
AliasOf(name) ==
    CASE name \in {"read", "fetch"} -> "get"
      [] name \in {"list", "search"} -> "query"
      [] name = "insert" -> "create"
      [] OTHER -> name

\* Step k was dispatched as `operation`: it is recorded under that name, it
\* called the client method of that operation, or no method and failed as
\* unsupported when there is none, and a create or update sent the given
\* values.
DispatchedAs(k, operation) ==
    /\ steps_out[k].operation = operation
    /\ \A c \in CallsOf({k}) : calls[c].method = MethodFor(operation)
    /\ Cardinality(CallsOf({k})) = IF MethodFor(operation) = "none" THEN 0 ELSE 1
    /\ MethodFor(operation) = "none" =>
        ~steps_out[k].ok /\ steps_out[k].error = Str("ValueError: Unsupported operation")
    /\ steps_out[k].fields = PlainDict(SubstituteDict(GivenFields(k), EmptyDict))
    /\ operation \in {"create", "update"} =>
        \A c \in CallsOf({k}) : calls[c].fields = steps_out[k].fields

\* C27 as stated: a step is dispatched as the operation its name stands for,
\* a name outside the alias table standing for itself, whether the name came
\* as operation, action or op and the values as fields or data.
C27_AliasedUnchangedOtherwise ==
    \A k \in DOMAIN steps_out : DispatchedAs(k, AliasOf(GivenName(k)))

\* C27 amended: the name is first stripped of surrounding blanks and put in
\* lower case; the alias table applies to the result.
C27_AliasedAfterLowercase ==
    \A k \in DOMAIN steps_out : DispatchedAs(k, AliasOf(PyLower(PyStrip(GivenName(k)))))

\* A step named insert under the key op, with its values under data, has
\* created the record with those values.
C27_Witness ==
    /\ Len(steps_out) = 1 /\ Len(calls) = 1
    /\ raw_steps[1].operation = "" /\ raw_steps[1].action = "" /\ raw_steps[1].op = "insert"
    /\ raw_steps[1].fields = EmptyDict
    /\ steps_out[1].operation = "create" /\ steps_out[1].ok
    /\ calls[1].method = "table_create" /\ calls[1].outcome = "returned"
    /\ calls[1].fields = [state |-> Str("2")]

-----------------------------------------------------------------------------
(* Substitution of inputs without tokens: strings, numbers, lists and
   mappings, after steps that filled the Reference Context. *)

MaxSubSteps == 2

\* "<lower>" and "$step.sys_id" match none of the three patterns of lines
\* 13-15: the alias pattern takes capitals, digits and underscores, the step
\* patterns a number after "$step".
NestedFields ==
    [state |-> Lit1("2"),
     priority |-> TNum("1"),
     tags |-> TList(<<Lit1("a"), TNum("5"), TNone>>),
     meta |-> TDict([note |-> Lit1("<lower>"),
                     refs |-> TList(<<Lit1("$step.sys_id")>>)])]

SubSteps ==
    {RawStep("create", "sc_cat_item", TNone, TNone, EmptyDict, EmptyDict),
     RawStep("query", "incident", TNone, Lit1("active=true"), EmptyDict, EmptyDict),
     RawStep("create", "incident", TNone, TNone, NestedFields, EmptyDict),
     RawStep("update", "incident", Lit1(IdC), TNone, [state |-> Lit1("2")], EmptyDict),
     RawStep("get", "incident", TNum("7"), TNone, EmptyDict,
             [sysparm_fields |-> Lit1("number")]),
     RawStep("query", "incident", TNone, Lit1("step1.sys_id=x"), EmptyDict, EmptyDict),
     RawStep("update", "incident", T(<<StepRef(1)>>), TNone,
             [parent |-> TList(<<T(<<StepRef(1)>>), Lit1("a")>>)], EmptyDict)}

SubBodies ==
    {Body(Str(IdA), NoResult, None),
     Body(None, ListResult(<<[sys_id |-> Str(IdB)]>>), None),
     Body(None, NoResult, Str("Operation failed"))}

InitSub ==
    InitWith({Plan("object", ss) : ss \in SeqsUpTo(SubSteps, MaxSubSteps)}, {FALSE})

NextSub == Begin \/ Dispatch \/ Respond(SubBodies) \/ Raise

SpecSub == InitSub /\ [][NextSub]_vars

\* The input holds no token: a string of literal text, a value that is no
\* string, a list or mapping of such inputs.
RECURSIVE TokenFree(_)
TokenFree(x) ==
    CASE x.t = "str" -> \A p \in DOMAIN x.v : x.v[p].k = "lit"
      [] x.t = "list" -> \A p \in DOMAIN x.v : TokenFree(x.v[p])
      [] x.t = "dict" -> \A k \in DOMAIN x.v : TokenFree(x.v[k])
      [] OTHER -> TRUE

\* The inputs of plan step k that go through substitution.
InputsOf(k) ==
    LET st == StepOf(k) IN
    {st.sys_id, st.query}
    \cup {st.fields[n] : n \in DOMAIN st.fields}
    \cup {st.params[n] : n \in DOMAIN st.params}
    \cup {TDict(st.fields), TDict(st.params)}

-----------------------------------------------------------------------------
(* Sequential execution *)

\* The transition issues a remote call or a cache lookup; IssuedFor is the
\* step it is issued for.
IssuesCall == Len(calls') = Len(calls) + 1
IssuesLookup ==
    /\ Len(cacheLog') > Len(cacheLog)
    /\ cacheLog'[Len(cacheLog) + 1].op = "get"
IssuedFor ==
    IF IssuesCall THEN calls'[Len(calls')].i ELSE cacheLog'[Len(cacheLog) + 1].i

\* Step m has its response, is classified, and its identifier is in the
\* Reference Context (under its step key and, row by row, its row keys).
Settled(m) ==
    /\ m \in DOMAIN steps_out
    /\ steps_out[m].i = m
    /\ steps_out[m].ok <=> steps_out[m].error = None
    /\ \A c \in CallsOf({m}) : calls[c].outcome \in {"returned", "raised", "rejected"}
    /\ (steps_out[m].ok /\ Truthy(_extract_sys_id(steps_out[m].response))) =>
        StepKey(m) \in DOMAIN ctx
    /\ (steps_out[m].ok /\ steps_out[m].response.kind = "dict"
            /\ steps_out[m].response.result.kind = "list") =>
        \A p \in DOMAIN steps_out[m].response.result.rows :
            LET row == steps_out[m].response.result.rows[p] IN
            (IsDictRow(row) /\ Truthy(row.sys_id)) => ResultKey(m, p - 1) \in DOMAIN ctx

\* C29: a remote call or cache lookup is issued for step n only when every
\* step before n is settled and nothing has been issued for n or a later
\* step: steps run one after the other.
C29_StrictlySequential ==
    [][(IssuesCall \/ IssuesLookup) =>
        LET n == IssuedFor IN
        /\ pc = "loop"
        /\ Len(steps_out) = n - 1
        /\ \A m \in 1..(n - 1) : Settled(m)
        /\ \A c \in DOMAIN calls : calls[c].i < n
        /\ \A c \in DOMAIN cacheLog :
            cacheLog[c].op \in {"get", "set"} => cacheLog[c].i < n]_vars

\* Step 1 has succeeded and its identifier is registered; the call of step 2,
\* which refers to it, is in flight with the identifier in place.
C29_Witness ==
    /\ pc = "await"
    /\ Len(steps_out) = 1 /\ steps_out[1].ok
    /\ "step1.sys_id" \in DOMAIN ctx
    /\ Len(calls) = 2 /\ calls[2].i = 2 /\ calls[2].outcome = "sent"
    /\ raw_steps[2].sys_id = T(<<StepRef(1)>>)
    /\ calls[2].sys_id = ctx["step1.sys_id"]

-----------------------------------------------------------------------------
(* Two calls of execute_steps in one event loop.  Each call has its own
   arguments and locals; the callbacks of both reach the same Result Cache.
   The running call gives way at the await of a remote call, before its
   first statement and after its last. *)

MaxTwoSteps == 2

\* Mutant of SharedContext: one Reference Context for all calls.
SharedContextAlways == TRUE

\* Line 205: ctx is a local of each call of execute_steps.
SharedContext == FALSE

\* The locals of the running call.
Locals(run) ==
    [run |-> run, plan |-> plan, pc |-> pc, i |-> i, ctx |-> ctx,
     steps_out |-> steps_out, report |-> report, pending |-> pending,
     calls |-> calls, observed |-> observed]

\* The locals of a call that has not started.
NotStarted(run, p) ==
    [run |-> run, plan |-> p, pc |-> "init", i |-> 1, ctx |-> EmptyDict,
     steps_out |-> <<>>, report |-> [ok |-> FALSE, steps |-> <<>>],
     pending |-> NoPending, calls |-> <<>>, observed |-> <<>>]

\* The event loop turns to the other call: the running one is suspended in a
\* remote call, not started or finished, and the other one can go on, or both
\* are finished and the caller of the other one reads its report.
Switch ==
    /\ other_run.run # "none"
    /\ pc \in {"init", "await", "done", "raised"}
    /\ other_run.pc \in {"init", "await"} \/ pc \in {"done", "raised"}
    /\ plan' = other_run.plan
    /\ pc' = other_run.pc
    /\ i' = other_run.i
    /\ ctx' = IF SharedContext THEN ctx ELSE other_run.ctx
    /\ steps_out' = other_run.steps_out
    /\ report' = other_run.report
    /\ pending' = other_run.pending
    /\ calls' = other_run.calls
    /\ observed' = other_run.observed
    /\ other_run' = Locals(IF other_run.run = "A" THEN "B" ELSE "A")
    /\ sid' = other_sid
    /\ other_sid' = sid
    /\ UNCHANGED <<ttl_vars, stop_on_error, cache_get, cache_set, on_step, cache, cacheLog>>

TwoSteps ==
    {RawStep("create", "sc_cat_item", TNone, TNone, EmptyDict, EmptyDict),
     RawStep("update", "incident", T(<<StepRef(1)>>), TNone,
             [cat_item |-> AliasToken], EmptyDict),
     RawStep("get", "incident", Lit1(IdC), TNone, EmptyDict, EmptyDict)}

TwoPlans == {Plan("object", ss) : ss \in SeqsUpTo(TwoSteps, MaxTwoSteps) \ {<<>>}}

TwoBodies ==
    {Body(None, DictResult(Str(IdA)), None),
     Body(None, DictResult(Str(IdB)), None)}

\* Call B runs first, call A waits to start; both with the cache of the
\* session, as api_execute_stream passes it.
InitTwo ==
    /\ plan \in TwoPlans
    /\ stop_on_error = TRUE
    /\ cache_get = TRUE
    /\ cache_set = TRUE
    /\ on_step = FALSE
    /\ pc = "init"
    /\ i = 1
    /\ ctx = EmptyDict
    /\ steps_out = <<>>
    /\ report = [ok |-> FALSE, steps |-> <<>>]
    /\ pending = NoPending
    /\ calls = <<>>
    /\ cache = EmptyDict
    /\ cacheLog = <<>>
    /\ observed = <<>>
    /\ other_run \in {NotStarted("A", p) : p \in TwoPlans}
    /\ NoTTL
    /\ sid = "s1"
    /\ other_sid = "s1"

NextTwo == Begin \/ Dispatch \/ Respond(TwoBodies) \/ Raise \/ Switch

SpecTwo == InitTwo /\ [][NextTwo]_vars

\* The identifiers a response carries.
IdsOf(body) ==
    {body.sys_id} \cup
    {body.result.rows[p].sys_id :
        p \in {q \in DOMAIN body.result.rows : IsDictRow(body.result.rows[q])}}

\* Every entry of the Reference Context of call l comes from a successful
\* Step Result of l: under the step key or a row key of that step, or under
\* the alias when the step was on sc_cat_item.
ContextOfOwnSteps(l) ==
    \A key \in DOMAIN l.ctx :
        \E m \in DOMAIN l.steps_out :
            /\ l.steps_out[m].ok
            /\ l.ctx[key] \in IdsOf(l.steps_out[m].response)
            /\ \/ key = StepKey(m)
               \/ \E p \in DOMAIN l.steps_out[m].response.result.rows : key = ResultKey(m, p - 1)
               \/ key = Alias /\ l.steps_out[m].table = "sc_cat_item"

\* The Step Results and the calls of l are those of the steps of its own
\* plan, in order, and its report holds its Step Results.
ReportOfOwnPlan(l) ==
    LET own == _extract_steps(l.plan) IN
    /\ Len(l.steps_out) <= Len(own)
    /\ \A k \in DOMAIN l.steps_out :
        /\ l.steps_out[k].i = k
        /\ l.steps_out[k].operation = _op_alias(_normalize_step(own[k]).operation)
        /\ l.steps_out[k].table = _normalize_step(own[k]).table
    /\ \A c \in DOMAIN l.calls :
        /\ l.calls[c].i \in DOMAIN own
        /\ l.calls[c].method = MethodFor(_op_alias(_normalize_step(own[l.calls[c].i]).operation))
    /\ l.pc = "done" => l.report.steps = l.steps_out

\* A recordId written as $step1.sys_id is sent as an identifier of the first
\* Step Result of l, or as written.
TokensOfOwnSteps(l) ==
    \A c \in DOMAIN l.calls :
        _extract_steps(l.plan)[l.calls[c].i].sys_id = T(<<StepRef(1)>>) =>
            \/ l.calls[c].sys_id = Str("$step1.sys_id")
            \/ /\ l.steps_out # <<>>
               /\ l.calls[c].sys_id \in IdsOf(l.steps_out[1].response)

OwnState(l) == ContextOfOwnSteps(l) /\ ReportOfOwnPlan(l) /\ TokensOfOwnSteps(l)

OwnStates == OwnState(Locals("running")) /\ OwnState(other_run)

\* A step of the running call leaves the other call as it is; when the event
\* loop resumes the other call, each call keeps its locals, and the cache is
\* the same for both.
OtherUntouched ==
    IF other_run'.run = other_run.run
    THEN other_run' = other_run
    ELSE /\ other_run' = Locals(other_run'.run)
         /\ other_run = [run |-> other_run.run, plan |-> plan', pc |-> pc', i |-> i',
                         ctx |-> ctx', steps_out |-> steps_out', report |-> report',
                         pending |-> pending', calls |-> calls', observed |-> observed']
         /\ cache' = cache

\* C30: with two calls interleaved at their remote calls, the Reference
\* Context and the Execution Report of each come from its own steps alone: a
\* token never resolves to an identifier of the other call, and a step of
\* one call changes nothing of the other but the Result Cache.
C30_RunsIsolated == [][OwnStates /\ OtherUntouched]_vars

\* Both calls created a catalog item, with calls in flight at the same time,
\* and got different identifiers; each updated its own: the running call
\* finished after the other one, which holds its own identifier.
C30_Witness ==
    /\ other_run.run # "none"
    /\ pc = "done" /\ other_run.pc = "done"
    /\ Len(steps_out) = 2 /\ Len(other_run.steps_out) = 2
    /\ Len(calls) = 2 /\ Len(other_run.calls) = 2
    /\ calls[2].method = "table_update" /\ other_run.calls[2].method = "table_update"
    /\ "step1.sys_id" \in DOMAIN ctx /\ "step1.sys_id" \in DOMAIN other_run.ctx
    /\ ctx["step1.sys_id"] # other_run.ctx["step1.sys_id"]
    /\ calls[2].sys_id = ctx["step1.sys_id"]
    /\ other_run.calls[2].sys_id = other_run.ctx["step1.sys_id"]


\* The running call was served the record from the Result Cache, where the
\* other call had stored it: it made no remote call of its own.
HitAcrossCalls ==
    /\ other_run.run # "none"
    /\ Len(other_run.calls) = 1 /\ other_run.calls[1].method = "table_get"
    /\ Len(steps_out) = 1 /\ steps_out[1].operation = "get" /\ steps_out[1].ok
    /\ calls = <<>>
    /\ steps_out[1].response = other_run.calls[1].body

-----------------------------------------------------------------------------
(* TTLCache (src/v1/cache.py): a dict of (expiry, value) pairs with a time to
   live and a capacity.  Its methods do not await: each runs to its end
   before any other code of the event loop. *)

\* The constructor arguments, scaled down (SN_RESULT_CACHE has 600 s and 600
\* items), and the end of the clock.
ttl == 2
max_items == 2
MaxClock == 4

TTLKeys == {ToString(n) : n \in 1..(max_items + 1)}
TTLVals == {"v", "w"}

Keys(d) == {d[p].key : p \in DOMAIN d}
ItemOf(d, key) == d[CHOOSE p \in DOMAIN d : d[p].key = key]

\* Mutant of DictSet: the first write of a key wins.
DictSetKeep(d, item) ==
    IF item.key \in Keys(d) THEN d ELSE Append(d, item)

\* self._d[key] = item: an existing key keeps its place, a new one goes last.
DictSet(d, item) ==
    IF item.key \in Keys(d)
    THEN [p \in DOMAIN d |-> IF d[p].key = item.key THEN item ELSE d[p]]
    ELSE Append(d, item)

\* self._d.pop(key, None)
DictPop(d, key) == SelectSeq(d, LAMBDA e : e.key # key)

\* sorted(self._d.items(), key=expiry): a stable sort, ties in dict order.
SortedByExpiry(d) ==
    LET rank(p) == 1 + Cardinality({q \in DOMAIN d :
                        \/ d[q].exp < d[p].exp
                        \/ d[q].exp = d[p].exp /\ q < p})
    IN [r \in DOMAIN d |-> d[CHOOSE p \in DOMAIN d : rank(p) = r]]

\* Mutant of _evict_if_needed: the entries with the latest expiry go.
EvictLatest(d) ==
    IF Len(d) <= max_items THEN d
    ELSE LET items == SortedByExpiry(d)
             n == IF Len(d) - max_items > 1 THEN Len(d) - max_items ELSE 1
             gone == {items[r].key : r \in (Len(d) - n + 1)..Len(d)}
         IN SelectSeq(d, LAMBDA e : e.key \notin gone)

\* _evict_if_needed, lines 12-18.
_evict_if_needed(d) ==
    IF Len(d) <= max_items THEN d
    ELSE LET items == SortedByExpiry(d)
             n == IF Len(d) - max_items > 1 THEN Len(d) - max_items ELSE 1
             gone == {items[r].key : r \in 1..n}
         IN SelectSeq(d, LAMBDA e : e.key \notin gone)

\* Mutant of Expired: an entry never expires.
ExpiredNever(item, now) == FALSE

\* Line 25: time.time() > exp.
Expired(item, now) == now > item.exp

\* What get(key) returns at time now, lines 20-28.
GetResult(d, key, now) ==
    IF key \notin Keys(d) \/ Expired(ItemOf(d, key), now)
    THEN [found |-> FALSE, val |-> ""]
    ELSE [found |-> TRUE, val |-> ItemOf(d, key).val]

\* TTLCache.set(key, val) with the default ttl, as every caller uses it.
TTLSetOn(key, val) ==
    /\ ttl_d' = _evict_if_needed(DictSet(ttl_d, [key |-> key, exp |-> clock + ttl, val |-> val]))
    /\ returned' = [op |-> "set", key |-> key, val |-> val, found |-> FALSE, t |-> clock,
                    gone |-> (Keys(ttl_d) \cup {key}) \ Keys(ttl_d')]
    /\ UNCHANGED clock

TTLSet == \E key \in TTLKeys, val \in TTLVals : TTLSetOn(key, val)

\* TTLCache.get(key): an expired entry is removed.
TTLGetOn(key) ==
    /\ ttl_d' = IF key \in Keys(ttl_d) /\ Expired(ItemOf(ttl_d, key), clock)
                THEN DictPop(ttl_d, key)
                ELSE ttl_d
    /\ returned' = [op |-> "get", key |-> key,
                    val |-> GetResult(ttl_d, key, clock).val,
                    found |-> GetResult(ttl_d, key, clock).found, t |-> clock,
                    gone |-> Keys(ttl_d) \ Keys(ttl_d')]
    /\ UNCHANGED clock

TTLGet == \E key \in TTLKeys : TTLGetOn(key)

\* TTLCache.delete(key)
TTLDelete ==
    \E key \in TTLKeys :
        /\ ttl_d' = DictPop(ttl_d, key)
        /\ returned' = [op |-> "delete", key |-> key, val |-> "", found |-> FALSE, t |-> clock,
                        gone |-> Keys(ttl_d) \ Keys(ttl_d')]
        /\ UNCHANGED clock

\* Time passes.
Tick ==
    /\ clock < MaxClock
    /\ clock' = clock + 1
    /\ UNCHANGED <<ttl_d, returned>>

ExecutorIdle ==
    UNCHANGED <<plan, stop_on_error, cache_get, cache_set, on_step, pc, i, ctx, steps_out,
                report, pending, calls, cache, cacheLog, observed, other_run, session_vars>>

InitTTL == InitWith({Plan("none", <<>>)}, {FALSE}) /\ stop_on_error = TRUE

NextTTL ==
    \/ TTLSet /\ ExecutorIdle
    \/ TTLGet /\ ExecutorIdle
    \/ TTLDelete /\ ExecutorIdle
    \/ Tick /\ ExecutorIdle

SpecTTL == InitTTL /\ [][NextTTL]_vars


\* B is in the cache and has not expired.
Unexpired(B) == B \in Keys(ttl_d) /\ ~Expired(ItemOf(ttl_d, B), clock)

\* No entry of the cache expires before B's.
EarliestExpiry(B) ==
    \A p \in DOMAIN ttl_d : ItemOf(ttl_d, B).exp <= ttl_d[p].exp

\* A set on A leaves the lookup of every other unexpired key as it was.
SetKeepsOthers ==
    \A A \in TTLKeys, val \in TTLVals :
        TTLSetOn(A, val) =>
            \A B \in TTLKeys \ {A} :
                Unexpired(B) => GetResult(ttl_d', B, clock') = GetResult(ttl_d, B, clock)

\* ... or evicts it: A is new, the cache is full, B expires first.
SetKeepsOrEvictsEarliest ==
    \A A \in TTLKeys, val \in TTLVals :
        TTLSetOn(A, val) =>
            \A B \in TTLKeys \ {A} :
                Unexpired(B) =>
                    \/ GetResult(ttl_d', B, clock') = GetResult(ttl_d, B, clock)
                    \/ /\ A \notin Keys(ttl_d)
                       /\ Len(ttl_d) >= max_items
                       /\ EarliestExpiry(B)
                       /\ ~GetResult(ttl_d', B, clock').found

\* The value of the last set is the one the cache holds for its key.
LastWriteWins ==
    returned.op = "set" =>
        /\ returned.key \in Keys(ttl_d)
        /\ ItemOf(ttl_d, returned.key).val = returned.val
        /\ ItemOf(ttl_d, returned.key).exp = returned.t + ttl

\* C31 as stated: on the shared cache a set on key A never changes what the
\* lookup of a different, unexpired key B returns, and two sets on one key
\* resolve last-write-wins.
C31_DisjointKeysNeverConflict == [][SetKeepsOthers]_vars /\ []LastWriteWins

\* C31: a set on key A leaves the lookup of every different, unexpired key B
\* unchanged unless A is a new key, the cache is full and B has the earliest
\* expiry, in which case B is evicted; the last set on a key decides the value
\* and the expiry the cache holds for it.
C31_DisjointKeysUnlessEvicted == [][SetKeepsOrEvictsEarliest]_vars /\ []LastWriteWins

\* A set has just overwritten a key of a full cache whose other key is
\* unexpired and still there.
C31_Witness ==
    /\ returned.op = "set"
    /\ Len(ttl_d) = max_items
    /\ returned.t > 0
    /\ clock = returned.t
    /\ ItemOf(ttl_d, returned.key).val = "w"
    /\ \E B \in Keys(ttl_d) \ {returned.key} :
           /\ Unexpired(B)
           /\ ItemOf(ttl_d, B).exp < ItemOf(ttl_d, returned.key).exp


\* After a set the cache holds at most max_items entries.
SetBounded == returned.op = "set" => Len(ttl_d) <= max_items

\* The entries a set removes expire no later than any entry it leaves.
EvictsEarliest ==
    \A A \in TTLKeys, val \in TTLVals :
        TTLSetOn(A, val) =>
            LET full == DictSet(ttl_d, [key |-> A, exp |-> clock + ttl, val |-> val])
            IN \A r \in Keys(full) \ Keys(ttl_d'), k \in Keys(ttl_d') :
                   ItemOf(full, r).exp <= ItemOf(ttl_d', k).exp

\* C37: whenever a set has returned, after any sequence of set, get and
\* delete, the cache holds at most max_items entries, and the entries a set
\* removes are those with the earliest expiry.
C37_CapacityEarliestEvicted == []SetBounded /\ [][EvictsEarliest]_vars

\* A set of a new key into a full cache has evicted one entry, and the entries
\* left expire at different times.
C37_Witness ==
    /\ returned.op = "set"
    /\ Cardinality(returned.gone) = 1
    /\ returned.key \notin returned.gone
    /\ Len(ttl_d) = max_items
    /\ \E p, q \in DOMAIN ttl_d : ttl_d[p].exp < ttl_d[q].exp

\* The value a get returned is that of an entry whose expiry had not passed.
GetReturnsUnexpired ==
    (returned.op = "get" /\ returned.found) =>
        /\ returned.key \in Keys(ttl_d)
        /\ ItemOf(ttl_d, returned.key).val = returned.val
        /\ returned.t <= ItemOf(ttl_d, returned.key).exp

\* A get of an expired entry reports it absent and removes it.
ExpiredReportedAbsent ==
    \A key \in TTLKeys :
        (TTLGetOn(key) /\ key \in Keys(ttl_d) /\ clock > ItemOf(ttl_d, key).exp) =>
            /\ ~returned'.found
            /\ key \notin Keys(ttl_d')

\* A set makes its key present, with an expiry one time to live ahead.
SetMakesPresent ==
    \A A \in TTLKeys, val \in TTLVals :
        TTLSetOn(A, val) =>
            /\ GetResult(ttl_d', A, clock') = [found |-> TRUE, val |-> val]
            /\ ItemOf(ttl_d', A).exp = clock' + ttl

-----------------------------------------------------------------------------
(* The Reference Context and failed steps *)

\* A Step Result is appended in this step, and it is a failed one.
StepFails ==
    /\ Len(steps_out') = Len(steps_out) + 1
    /\ ~steps_out'[Len(steps_out')].ok

\* C32: a failed step, whether it failed validation, its remote call raised
\* or its body carries an error indicator, leaves the Reference Context as it
\* was: no stepI.sys_id key, no stepI.result[j].sys_id key and no alias is
\* added or modified.
C32_FailedStepKeepsContext == [][StepFails => ctx' = ctx]_vars

\* The first step succeeded and captured an identifier, the remote call of
\* the second raised: the context holds keys of the first step only.
C32_Witness ==
    /\ Len(steps_out) = 2
    /\ steps_out[1].ok
    /\ ~steps_out[2].ok
    /\ Len(calls) = 2
    /\ calls[2].outcome = "raised"
    /\ "step1.sys_id" \in DOMAIN ctx
    /\ "step2.sys_id" \notin DOMAIN ctx

-----------------------------------------------------------------------------
(* References to the step itself and to later steps: plans whose steps refer
   to steps 1 to 3 by identifier and by result row. *)

MaxRefSteps == 2

\* The step numbers a token names.
RefNumbers == 1..(MaxRefSteps + 1)

RefSteps ==
    {RawStep("create", "incident", TNone, TNone, EmptyDict, EmptyDict),
     RawStep("query", "incident", TNone, Lit1("active=true"), EmptyDict, EmptyDict)}
    \cup {RawStep("update", "incident", T(<<StepRef(n)>>), TNone,
                  [state |-> Lit1("2")], EmptyDict) : n \in RefNumbers}
    \cup {RawStep("query", "incident", TNone,
                  T(<<Lit("parent="), StepRef(1), Lit("^child="), ResultRef(n, 0)>>),
                  EmptyDict, EmptyDict) : n \in RefNumbers}

RefBodies ==
    {Body(Str(IdA), NoResult, None),
     Body(None, ListResult(<<[sys_id |-> Str(IdB)]>>), None),
     Body(Str(IdC), NoResult, Str("Operation failed"))}

InitRefs ==
    InitWith({Plan("object", ss) : ss \in SeqsUpTo(RefSteps, MaxRefSteps)}, {FALSE})

NextRefs == Begin \/ Dispatch \/ Respond(RefBodies) \/ Raise

SpecRefs == InitRefs /\ [][NextRefs]_vars

\* The context keys that belong to step n.
KeysOfStep(n) == {StepKey(n)} \cup {ResultKey(n, j) : j \in 0..MaxRows}

AliasNames == {"CAT_ITEM_SYS_ID"}

\* The loop is about to resolve the references of step i.
AtResolution == pc = "loop" /\ i \in DOMAIN raw_steps

\* Every step key of the context belongs to an earlier step that succeeded.
KeysOfEarlierSucceeded ==
    \A key \in DOMAIN ctx :
        \/ key \in AliasNames
        \/ \E n \in 1..(i - 1) :
            /\ key \in KeysOfStep(n)
            /\ n \in DOMAIN steps_out
            /\ steps_out[n].ok

\* x with the tokens that name step k or a later step taken as plain text.
Frozen(x, k) ==
    IF x.t # "str" THEN x
    ELSE T([p \in DOMAIN x.v |->
              IF x.v[p].k \in {"step", "result"} /\ x.v[p].n >= k
              THEN Lit(AtomText(x.v[p]))
              ELSE x.v[p]])

\* x names step k or a later step.
NamesLater(x, k) ==
    /\ x.t = "str"
    /\ \E p \in DOMAIN x.v : x.v[p].k \in {"step", "result"} /\ x.v[p].n >= k

\* The request sent for step i carries the tokens of step i and of later
\* steps as they stand in the plan.
LaterTokensKept ==
    (AtResolution /\ Len(calls') = Len(calls) + 1) =>
        LET st == StepOf(i)
            sent == calls'[Len(calls')]
        IN /\ sent.method \in {"table_update", "table_get", "table_delete"} =>
                sent.sys_id = Plain(SubstituteIfStr(Frozen(st.sys_id, i), ctx))
           /\ sent.method = "table_query" =>
                sent.query = Plain(SubstituteIfStr(Frozen(st.query, i), ctx))
           /\ (sent.method = "table_update" /\ st.sys_id = T(<<StepRef(i)>>)) =>
                sent.sys_id = Str("$" \o StepKey(i))

\* C33: when the references of step j are resolved, the Reference Context
\* holds stepN.sys_id and stepN.result[..].sys_id keys only of steps N < j
\* that succeeded; so a token that names step j or a later step is not
\* replaced.
C33_OnlyEarlierSucceeded ==
    [](AtResolution => KeysOfEarlierSucceeded) /\ [][LaterTokensKept]_vars

\* Step 1 succeeded with an identifier; step 2, a query that names step 1 and
\* the first row of step 2 itself, was sent with the first token replaced and
\* the second as written.
C33_Witness ==
    /\ Len(steps_out) = 1
    /\ steps_out[1].ok
    /\ pc = "await"
    /\ Len(calls) = 2
    /\ calls[2].i = 2
    /\ StepOf(2).query = T(<<Lit("parent="), StepRef(1), Lit("^child="), ResultRef(2, 0)>>)
    /\ calls[2].query = Str("parent=" \o IdA \o "^child=$step2.result[0].sys_id")

-----------------------------------------------------------------------------
(* The Result Cache, failed lookups and writes *)

\* Step k called cache_get.
LookedUp(k) == \E c \in DOMAIN cacheLog : cacheLog[c].i = k /\ cacheLog[c].op = "get"

\* Steps j < k looked up the same key.
SameLookup(j, k) ==
    /\ j < k
    /\ LookedUp(j)
    /\ LookedUp(k)
    /\ cacheLog[LookupOf(j)].key = cacheLog[LookupOf(k)].key

\* C34: a body with an embedded error indicator is never stored in the Result
\* Cache: after a get or query step failed with an embedded error, a later
\* step with the same resolved request makes a new remote call and does not
\* fail from the cache.
C34_ErrorBodyNotCached ==
    (cache_get /\ cache_set) =>
        /\ \A key \in DOMAIN cache : ~HasError(cache[key])
        /\ \A j, k \in DOMAIN steps_out :
            (SameLookup(j, k) /\ HasError(steps_out[j].response)) =>
                /\ ~cacheLog[LookupOf(k)].hit
                /\ CallsOf({k}) # {}

\* Step j is an update or a delete of a record that succeeded, and step k, a
\* later get of the same record, called cache_get.
GetAfterWrite(j, k) ==
    /\ j < k
    /\ steps_out[j].operation \in {"update", "delete"}
    /\ steps_out[j].ok
    /\ CallsOf({j}) # {}
    /\ steps_out[k].operation = "get"
    /\ LookedUp(k)
    /\ \A c \in CallsOf({j}) :
        /\ calls[c].table = cacheLog[LookupOf(k)].args.table
        /\ calls[c].sys_id = cacheLog[LookupOf(k)].args.sys_id

\* The key step k looked up was stored by a step after step j and before k.
StoredSince(j, k) ==
    \E c \in DOMAIN cacheLog :
        /\ cacheLog[c].op = "set"
        /\ cacheLog[c].key = cacheLog[LookupOf(k)].key
        /\ cacheLog[c].i > j
        /\ cacheLog[c].i < k

\* C35: in a run with a cache, a get of record R after a successful update or
\* delete of R is sent to the remote client, and is not served from an entry
\* cached before the write, be it by this run or by an earlier one.
C35_NoStaleReadAfterWrite ==
    (cache_get /\ cache_set) =>
        \A j, k \in DOMAIN steps_out :
            GetAfterWrite(j, k) =>
                /\ cacheLog[LookupOf(k)].hit => StoredSince(j, k)
                /\ (k = j + 1) => CallsOf({k}) # {}

-----------------------------------------------------------------------------
(* Two requests of api_execute_stream, of the same browser session or of two,
   each with a session that holds an identifier or none; their calls of
   execute_steps interleave at the remote calls and share SN_RESULT_CACHE. *)

MaxSessionSteps == 2

SessionIds == {"", "s1", "s2"}

SessionSteps ==
    {RawStep("get", "incident", Lit1(IdC), TNone, EmptyDict, EmptyDict),
     RawStep("query", "incident", TNone, Lit1("active=true"), EmptyDict, EmptyDict)}

SessionPlans == {Plan("object", ss) : ss \in SeqsUpTo(SessionSteps, MaxSessionSteps) \ {<<>>}}

SessionBodies ==
    {Body(None, DictResult(Str(IdA)), None),
     Body(None, ListResult(<<[sys_id |-> Str(IdB)]>>), None)}

InitSessions ==
    /\ plan \in SessionPlans
    /\ stop_on_error = TRUE
    /\ cache_get = TRUE
    /\ cache_set = TRUE
    /\ on_step = FALSE
    /\ pc = "init"
    /\ i = 1
    /\ ctx = EmptyDict
    /\ steps_out = <<>>
    /\ report = [ok |-> FALSE, steps |-> <<>>]
    /\ pending = NoPending
    /\ calls = <<>>
    /\ cache = EmptyDict
    /\ cacheLog = <<>>
    /\ observed = <<>>
    /\ other_run \in {NotStarted("A", p) : p \in SessionPlans}
    /\ NoTTL
    /\ sid \in SessionIds
    /\ other_sid \in SessionIds

NextSessions == Begin \/ Dispatch \/ Respond(SessionBodies) \/ Raise \/ Switch

SpecSessions == InitSessions /\ [][NextSessions]_vars

\* The callback invocations that stored an entry.
Stores == {c \in DOMAIN cacheLog : cacheLog[c].op = "set"}

\* The callback invocations that returned an entry.
Hits == {c \in DOMAIN cacheLog : cacheLog[c].op = "get" /\ cacheLog[c].hit}

\* Every entry returned to a run was stored under the same key by a run of
\* the same session.
HitsOfOwnSession ==
    \A c \in Hits :
        \E d \in Stores :
            /\ d < c
            /\ cacheLog[d].key = cacheLog[c].key
            /\ cacheLog[d].sid = cacheLog[c].sid

\* The keys of the cache are the keys the executor passed, each behind the
\* identifier of a session.
KeysPrefixed ==
    /\ DOMAIN cache = {cacheLog[c].sid \o ":" \o cacheLog[c].key : c \in Stores}
    /\ \A c \in DOMAIN cacheLog : cacheLog[c].sid # ""

\* The identifier a callback uses is that of the request which runs the call:
\* the one its session holds, or the one it is given at the first use and
\* holds from then on.
SidOfRequest ==
    Len(cacheLog') = Len(cacheLog) + 1 =>
        /\ cacheLog'[Len(cacheLog')].sid = sid'
        /\ sid # "" => sid' = sid

\* C36: an entry a run of one browser session wrote to the Result Cache is
\* never returned to a run of another session: every key execute_steps reads
\* or writes through the callbacks is prefixed with the session identifier of
\* the request that started the run.
C36_SessionScopedKeys == [](HitsOfOwnSession /\ KeysPrefixed) /\ [][SidOfRequest]_vars

\* A run of one session stored the record; the run of another session then
\* looked the same key up, missed, read the record remotely and stored it
\* under its own key.
C36_Witness ==
    /\ sid # other_sid
    /\ sid \in {"s1", "s2"}
    /\ other_sid \in {"s1", "s2"}
    /\ Len(cacheLog) = 4
    /\ cacheLog[2].op = "set"
    /\ cacheLog[2].sid = other_sid
    /\ cacheLog[3].op = "get"
    /\ ~cacheLog[3].hit
    /\ cacheLog[3].sid = sid
    /\ cacheLog[3].key = cacheLog[2].key
    /\ cacheLog[4].op = "set"
    /\ Cardinality(DOMAIN cache) = 2
    /\ Len(calls) = 1
    /\ calls[1].method = "table_get"

\* Two runs of one session: the second was served the entry of the first.
SameSessionHit ==
    /\ sid = other_sid
    /\ sid = "s1"
    /\ Hits # {}

====
